---- MODULE Spec2Model ----
(***************************************************************************)
(* Contact-book service: the auth workflow (register, login, email         *)
(* confirmation, password reset), the token service, the user directory    *)
(* and the owner-scoped contact directory, as state machines over the      *)
(* two tables (users, contacts), the tokens clients hold and the pending   *)
(* background mail tasks.                                                  *)
(***************************************************************************)
EXTENDS Integers, Sequences, FiniteSets, Bags, TLC

VARIABLES
    users,        \* the 'users' table, in id order
    user_seq,     \* the last id the users id sequence handed out
    contacts,     \* the 'contacts' table: a set of rows
    contact_seq,  \* the last id the contacts id sequence handed out
    tokens,       \* the token strings clients hold (login responses, delivered mails)
    outbox,       \* background mail tasks added by finished requests, not yet run
    now,          \* the clock, in ticks of 1/TicksPerSecond second
    response,     \* the last request and what the API answered to it
    inflight,     \* the bag of requests suspended at an await, each with its position and locals
    me_hits,      \* the rate limiter's counter of GET /users/me for the client address
    task_exc      \* the exception that left the background task run last, or "none"

vars == <<users, user_seq, contacts, contact_seq, tokens, outbox, now, response, inflight, me_hits, task_exc>>

----------------------------------------------------------------------------
(* Bounds of the model. *)

MaxPending == 1      \* background tasks waiting to run
MaxTokens == 2       \* distinct tokens held by clients
MaxContacts == 2     \* rows the contacts id sequence hands out
MaxInflight == 2     \* requests suspended at an await
MaxRoleInflight == 1 \* the same, where roles are followed
TicksPerSecond == 2  \* resolution of the clock

(* Input domains. A username is an unvalidated string, so it may look like *)
(* an email address.                                                       *)
Usernames == {"alice", "bob@x.com"}
Emails == {"alice@x.com", "bob@x.com"}
Passwords == {"pass1", "pass2"}
RegisterPasswords == {"pass1"}
ResetPasswords == {"pass2"}
Salts == {"saltA"}
Roles == {"user", "admin"}

----------------------------------------------------------------------------
(* Settings. *)

JWT_SECRET == "JWT_SECRET"
JWT_EXPIRATION_SECONDS == 3600
EMAIL_TOKEN_SECONDS == 604800

(* Optional values: {} is None, {v} is v. *)
None == {}
Some(v) == {v}
The(opt) == CHOOSE v \in opt : TRUE

Range(s) == {s[i] : i \in DOMAIN s}

----------------------------------------------------------------------------
(* Credential hasher: bcrypt of the password under a fresh salt; verifying *)
(* re-hashes the candidate under the digest's own salt.                    *)

bcrypt(salt, password) == <<"bcrypt", salt, password>>

get_password_hash(password, salt) == [salt |-> salt, digest |-> bcrypt(salt, password)]

verify_password(plain_password, hashed_password) ==
    bcrypt(hashed_password.salt, plain_password) = hashed_password.digest

----------------------------------------------------------------------------
(* Token service. A token string is its claims under the signing key.      *)
(* An instant (a datetime) is a number of ticks; the exp and iat claims of *)
(* a token are whole seconds.                                              *)

(* timedelta(seconds=n) *)
timedelta(seconds) == seconds * TicksPerSecond

(* timegm(dt.utctimetuple()): the whole seconds of an instant, the fraction dropped. *)
timegm(dt) == dt \div TicksPerSecond

(* jose's encode: the datetimes under exp and iat become whole seconds. *)
jwt_encode(to_encode, key) ==
    [claims |-> [to_encode EXCEPT !.exp = timegm(@), !.iat = timegm(@)], key |-> key]

(* jose's decode: the signature first, then exp against the whole seconds  *)
(* of the clock: the token is refused when exp < timegm(now).              *)
jwt_decode(token, key, t) ==
    IF token.key = key /\ ~(token.claims.exp < timegm(t))
    THEN [ok |-> TRUE, payload |-> token.claims]
    ELSE [ok |-> FALSE, payload |-> token.claims]

(* _build_token reads the clock twice: t for exp, then t_iat for iat. *)
_build_token(data, expires_delta, t, t_iat) ==
    jwt_encode([sub |-> data.sub, password |-> data.password,
                exp |-> t + expires_delta, iat |-> t_iat], JWT_SECRET)

(* expires_delta or settings.JWT_EXPIRATION_SECONDS: None and 0 give the default. *)
create_access_token(data, expires_delta, t, t_iat) ==
    _build_token(data,
                 timedelta(IF expires_delta = None \/ The(expires_delta) = 0
                           THEN JWT_EXPIRATION_SECONDS ELSE The(expires_delta)),
                 t, t_iat)

create_email_token(data, t, t_iat) ==
    _build_token(data, timedelta(EMAIL_TOKEN_SECONDS), t, t_iat)

(* A string that is no token signed with the secret. *)
GarbageToken == [claims |-> [sub |-> None, password |-> None, exp |-> 0, iat |-> 0],
                 key |-> "other"]

(* get_email_from_token: the sub claim, or the 422 error; a sub that is    *)
(* absent or the empty string is refused (if not email).                   *)
get_email_from_token(token, t) ==
    LET d == jwt_decode(token, JWT_SECRET, t) IN
    IF d.ok /\ d.payload.sub # None /\ The(d.payload.sub) # ""
    THEN [ok |-> TRUE, value |-> The(d.payload.sub), exc |-> "none"]
    ELSE [ok |-> FALSE, value |-> "", exc |-> "HTTPException"]

(* get_password_from_token: the password claim; a JWTError becomes the 422 *)
(* error, a missing claim is a KeyError nothing catches.                   *)
get_password_from_token(token, t) ==
    LET d == jwt_decode(token, JWT_SECRET, t) IN
    IF ~d.ok THEN [ok |-> FALSE, value |-> None, exc |-> "HTTPException"]
    ELSE IF d.payload.password = None
         THEN [ok |-> FALSE, value |-> None, exc |-> "KeyError"]
         ELSE [ok |-> TRUE, value |-> d.payload.password, exc |-> "none"]

----------------------------------------------------------------------------
(* User directory. *)

get_user_by_email(us, email) == {u \in Range(us) : u.email = email}

get_user_by_username(us, username) == {u \in Range(us) : u.username = username}

get_user_by_id(us, user_id) == {u \in Range(us) : u.id = user_id}

Gravatar(email) == <<"gravatar", email>>

(* A create_user that stores the new row as already confirmed. *)
create_user_confirmed(seq, body, avatar) ==
    [id |-> seq + 1, username |-> body.username, email |-> body.email,
     hashed_password |-> body.password, avatar |-> avatar,
     confirmed |-> TRUE, role |-> body.role]

(* create_user: the row the insert adds: id is the next value of the users *)
(* id sequence, confirmed takes the column default.                        *)
create_user(seq, body, avatar) ==
    [id |-> seq + 1, username |-> body.username, email |-> body.email,
     hashed_password |-> body.password, avatar |-> avatar,
     confirmed |-> FALSE, role |-> body.role]

(* UserRepository.confirmed_email: the table with the flag of the row of email set. *)
repo_confirmed_email(us, email) ==
    [i \in DOMAIN us |-> IF us[i].email = email
                         THEN [us[i] EXCEPT !.confirmed = TRUE] ELSE us[i]]

----------------------------------------------------------------------------
(* Responses: the status, the detail of an error, the body as a list (of  *)
(* one item for a single object), and the tasks handed to BackgroundTasks. *)

Resp(op, req, status, detail, body, tasks) ==
    [op |-> op, req |-> req, status |-> status, detail |-> detail,
     body |-> body, tasks |-> tasks]

USER_EXISTS_EMAIL == [status |-> 409, detail |-> "User with this email already exists"]
USER_EXISTS_USERNAME == [status |-> 409, detail |-> "User with this username already exists"]
INVALID_CREDENTIALS == [status |-> 401, detail |-> "Invalid username or password"]
EMAIL_NOT_CONFIRMED == [status |-> 401, detail |-> "Email address not confirmed"]
VERIFICATION_ERROR == [status |-> 400, detail |-> "Verification error"]
(* The detail is the text of the source, its Cyrillic letters written as \uXXXX. *)
EMAIL_TOKEN_ERROR ==
    [status |-> 422,
     detail |-> "\\u041d\\u0435\\u043f\\u0440\\u0430\\u0432\\u0438\\u043b\\u044c\\u043d\\u0438\\u0439 \\u0442\\u043e\\u043a\\u0435\\u043d \\u0434\\u043b\\u044f \\u043f\\u0435\\u0440\\u0435\\u0432\\u0456\\u0440\\u043a\\u0438 \\u0435\\u043b\\u0435\\u043a\\u0442\\u0440\\u043e\\u043d\\u043d\\u043e\\u0457 \\u043f\\u043e\\u0448\\u0442\\u0438"]
WRONG_TOKEN == [status |-> 422, detail |-> "Wrong token"]
SERVER_ERROR == [status |-> 500, detail |-> "Internal Server Error"]

Raise(op, req, e) == Resp(op, req, e.status, e.detail, <<>>, <<>>)

(* @limiter.limit("10 per minute") of GET /users/me, keyed by the client    *)
(* address; one client address is followed. The limiter keeps a counter    *)
(* that starts a window of RATE_WINDOW seconds at its first hit and is      *)
(* dropped when the window is over.                                        *)
RATE_LIMIT == 10
RATE_WINDOW == 60
RATE_LIMIT_EXCEEDED == [status |-> 429, detail |-> "10 per 1 minute"]

NoHits == [count |-> 0, expires |-> 0]

(* One more hit at time t. Every hit is counted, a refused one too; counts  *)
(* above the limit are all refused alike and are kept as RATE_LIMIT + 1.    *)
limiter_hit(storage, t) ==
    LET live == IF storage.expires <= t THEN NoHits ELSE storage
        count == live.count + 1
    IN [count |-> IF count > RATE_LIMIT THEN RATE_LIMIT + 1 ELSE count,
        expires |-> IF count = 1 THEN t + timedelta(RATE_WINDOW) ELSE live.expires]

----------------------------------------------------------------------------
(* Request bodies. *)

UserCreateBodies ==
    [username : Usernames, email : Emails, password : RegisterPasswords, role : Roles]
LoginForms == [username : Usernames, password : Passwords]
ResetPasswordBodies == [email : Emails, password : ResetPasswords]

(* What clients can present as a token: one they hold, or a string that is none. *)
PresentableTokens == tokens \cup {GarbageToken}

(* The response schema User: the row without its hash and flag. *)
UserOut(u) == [id |-> u.id, username |-> u.username, email |-> u.email,
               avatar |-> u.avatar, role |-> u.role]

Message(m) == <<[message |-> m]>>

ConfirmTask(to_email, username) ==
    [kind |-> "send_confirm_email", to_email |-> to_email, username |-> username,
     reset_token |-> None]
ResetTask(to_email, username, reset_token) ==
    [kind |-> "send_reset_password_email", to_email |-> to_email, username |-> username,
     reset_token |-> Some(reset_token)]

(* A users table whose columns carry no unique constraint. *)
users_unique_ok_unconstrained(us, row) == TRUE

(* The unique constraints of the users table, as the commit enforces them. *)
users_unique_ok(us, row) ==
    /\ \A u \in Range(us) : u.username # row.username
    /\ \A u \in Range(us) : u.email # row.email

----------------------------------------------------------------------------
(* POST /auth/register *)

(* A request suspended at an await is a record in the bag inflight: the    *)
(* await it resumes after (pc) and the locals it carries over the await.   *)
(* Other requests run between two steps of one request; two requests with  *)
(* the same input may be suspended at the same await.                      *)
Suspend(r) == inflight (+) SetToBag({r})
Resume(r) == inflight (-) SetToBag({r})
Suspended == BagToSet(inflight)

(* The handler's lookups with the username lookup left out. *)
register_lookup_email_only(us, which, user_data) ==
    IF which = "email" /\ get_user_by_email(us, user_data.email) # None
    THEN Some(USER_EXISTS_EMAIL)
    ELSE None

(* One lookup of the handler: the 409 it raises when a row is found, or None. *)
register_lookup(us, which, user_data) ==
    IF which = "email"
    THEN (IF get_user_by_email(us, user_data.email) # None
          THEN Some(USER_EXISTS_EMAIL) ELSE None)
    ELSE (IF get_user_by_username(us, user_data.username) # None
          THEN Some(USER_EXISTS_USERNAME) ELSE None)

(* The lookups with the username looked up first. *)
register_lookups_username_first == <<"username", "email">>

(* The order of the handler's two lookups. *)
register_lookups == <<"email", "username">>

(* The value of a field that a request body does not carry. *)
Absent == "<absent>"

(* The 422 of a body that does not validate as its schema. *)
REQUEST_VALIDATION_ERROR == [status |-> 422, detail |-> "Field required"]

(* The body is validated as UserCreate, where role is a required UserRole; *)
(* then the request arrives:                                               *)
(* await user_service.get_user_by_email(user_data.email).                  *)
register_user(user_data) ==
    LET conflict == register_lookup(users, register_lookups[1], user_data) IN
    /\ IF user_data.role \notin Roles
       THEN /\ response' = Raise("register_user", user_data, REQUEST_VALIDATION_ERROR)
            /\ UNCHANGED inflight
       ELSE IF conflict # None
       THEN /\ response' = Raise("register_user", user_data, The(conflict))
            /\ UNCHANGED inflight
       ELSE /\ BagCardinality(inflight) < MaxInflight
            /\ inflight' = Suspend([pc |-> "check_username", user_data |-> user_data])
            /\ UNCHANGED response
    /\ UNCHANGED <<task_exc, me_hits, users, user_seq, contacts, contact_seq, tokens, outbox, now>>

(* await user_service.get_user_by_username(user_data.username) *)
register_check_username(r) ==
    /\ BagIn(r, inflight)
    /\ r.pc = "check_username"
    /\ LET conflict == register_lookup(users, register_lookups[2], r.user_data) IN
       IF conflict # None
       THEN /\ response' = Raise("register_user", r.user_data, The(conflict))
            /\ inflight' = Resume(r)
       ELSE /\ inflight' = Resume(r) (+) SetToBag({[r EXCEPT !.pc = "create_user"]})
            /\ UNCHANGED response
    /\ UNCHANGED <<task_exc, me_hits, users, user_seq, contacts, contact_seq, tokens, outbox, now>>

(* The hash and the first half of await user_service.create_user: add and  *)
(* await self.db.commit(). The INSERT takes the next id of the sequence     *)
(* whether or not its commit goes through.                                  *)
register_create_user(r) ==
    /\ BagIn(r, inflight)
    /\ r.pc = "create_user"
    /\ user_seq' = user_seq + 1
    /\ \E salt \in Salts :
       LET user_data == r.user_data
           body == [user_data EXCEPT !.password = get_password_hash(user_data.password, salt)]
           new_user == create_user(user_seq, body, Gravatar(body.email))
       IN IF ~users_unique_ok(users, new_user)
          THEN \* IntegrityError at commit: rolled back and re-raised, nothing catches it
               /\ inflight' = Resume(r)
               /\ response' = Resp("register_user", user_data, SERVER_ERROR.status,
                                   "IntegrityError", <<>>, <<>>)
               /\ UNCHANGED users
          ELSE /\ users' = Append(users, new_user)
               /\ inflight' = Resume(r) (+) SetToBag({[pc |-> "refresh_user",
                                                       user_data |-> user_data,
                                                       user_id |-> new_user.id]})
               /\ UNCHANGED response
    /\ UNCHANGED <<task_exc, me_hits, contacts, contact_seq, tokens, outbox, now>>

(* await self.db.refresh(user), add_task, return: the row is read back by   *)
(* its id (rows are never deleted), the mail task queued and the row sent.  *)
register_refresh_user(r) ==
    /\ BagIn(r, inflight)
    /\ r.pc = "refresh_user"
    /\ Len(outbox) < MaxPending
    /\ inflight' = Resume(r)
    /\ LET new_user == The({u \in Range(users) : u.id = r.user_id})
           task == ConfirmTask(new_user.email, new_user.username)
       IN /\ outbox' = Append(outbox, task)
          /\ response' = Resp("register_user", r.user_data, 201, "",
                              <<UserOut(new_user)>>, <<task>>)
    /\ UNCHANGED <<task_exc, me_hits, users, user_seq, contacts, contact_seq, tokens, now>>

----------------------------------------------------------------------------
(* POST /auth/login *)

(* The handler's two checks, in order: the 401 to raise, or None. *)
login_check_conflated(user, password) ==
    IF user = None \/ ~verify_password(password, The(user).hashed_password)
       \/ ~The(user).confirmed
    THEN Some(INVALID_CREDENTIALS)
    ELSE None

login_check_unconfirmed_ok(user, password) ==
    IF user = None \/ ~verify_password(password, The(user).hashed_password)
    THEN Some(INVALID_CREDENTIALS)
    ELSE None

login_check(user, password) ==
    IF user = None \/ ~verify_password(password, The(user).hashed_password)
    THEN Some(INVALID_CREDENTIALS)
    ELSE IF ~The(user).confirmed THEN Some(EMAIL_NOT_CONFIRMED)
    ELSE None

(* The claims of a session token. *)
session_claims(user) == [sub |-> Some(user.username), password |-> None]

login_user(form_data) ==
    LET user == get_user_by_username(users, form_data.username)
        err == login_check(user, form_data.password)
    IN IF err # None
       THEN /\ response' = Raise("login_user", form_data, The(err))
            /\ UNCHANGED <<task_exc, me_hits, inflight, user_seq, users, contacts, contact_seq, tokens, outbox, now>>
       ELSE LET access_token == create_access_token(session_claims(The(user)), None, now, now) IN
            /\ access_token \in tokens \/ Cardinality(tokens) < MaxTokens
            /\ tokens' = tokens \cup {access_token}
            /\ response' = Resp("login_user", form_data, 200, "",
                                <<[access_token |-> access_token, token_type |-> "bearer"]>>,
                                <<>>)
            /\ UNCHANGED <<task_exc, me_hits, inflight, user_seq, users, contacts, contact_seq, outbox, now>>

----------------------------------------------------------------------------
(* GET /auth/confirmed_email/{token} *)

ALREADY_CONFIRMED == "Your email address is already confirmed"
EMAIL_CONFIRMED == "Email successfully confirmed"

already_confirmed_never(user) == FALSE

(* The handler's test of the flag before it writes. *)
already_confirmed(user) == user.confirmed

(* The request arrives: the token is decoded and the user looked up         *)
(* (await user_service.get_user_by_email(email)).                          *)
confirmed_email(token) ==
    LET email == get_email_from_token(token, now)
        user == get_user_by_email(users, email.value)
    IN /\ IF ~email.ok
          THEN /\ response' = Raise("confirmed_email", token, EMAIL_TOKEN_ERROR)
               /\ UNCHANGED inflight
          ELSE IF user = None
          THEN /\ response' = Raise("confirmed_email", token, VERIFICATION_ERROR)
               /\ UNCHANGED inflight
          ELSE IF already_confirmed(The(user))
          THEN /\ response' = Resp("confirmed_email", token, 200, "",
                                   Message(ALREADY_CONFIRMED), <<>>)
               /\ UNCHANGED inflight
          ELSE /\ BagCardinality(inflight) < MaxInflight
               /\ inflight' = Suspend([pc |-> "confirmed_email_lookup", token |-> token,
                                        email |-> email.value])
               /\ UNCHANGED response
       /\ UNCHANGED <<task_exc, me_hits, users, user_seq, contacts, contact_seq, tokens, outbox, now>>

(* await user_service.confirmed_email(email), first await: the row is read  *)
(* again by its email. Rows are never deleted and an email never changes,   *)
(* so the read finds the row the handler found, already loaded.             *)
confirmed_email_lookup(r) ==
    /\ BagIn(r, inflight)
    /\ r.pc = "confirmed_email_lookup"
    /\ inflight' = Resume(r) (+) SetToBag({[r EXCEPT !.pc = "confirmed_email_commit"]})
    /\ UNCHANGED <<task_exc, me_hits, users, user_seq, contacts, contact_seq, tokens, outbox, now, response>>

(* user.confirmed = True; await self.db.commit(); return. *)
confirmed_email_commit(r) ==
    /\ BagIn(r, inflight)
    /\ r.pc = "confirmed_email_commit"
    /\ inflight' = Resume(r)
    /\ users' = repo_confirmed_email(users, r.email)
    /\ response' = Resp("confirmed_email", r.token, 200, "",
                        Message(EMAIL_CONFIRMED), <<>>)
    /\ UNCHANGED <<task_exc, me_hits, user_seq, contacts, contact_seq, tokens, outbox, now>>

----------------------------------------------------------------------------
(* POST /auth/request_email *)

CHECK_EMAIL_CONFIRM == "Check your email for confirmation instructions"

request_email(email) ==
    LET user == get_user_by_email(users, email) IN
    IF user # None /\ The(user).confirmed
    THEN /\ response' = Resp("request_email", email, 200, "", Message(ALREADY_CONFIRMED), <<>>)
         /\ UNCHANGED <<task_exc, me_hits, inflight, user_seq, users, contacts, contact_seq, tokens, outbox, now>>
    ELSE IF user # None
    THEN LET task == ConfirmTask(The(user).email, The(user).username) IN
         /\ Len(outbox) < MaxPending
         /\ outbox' = Append(outbox, task)
         /\ response' = Resp("request_email", email, 200, "",
                             Message(CHECK_EMAIL_CONFIRM), <<task>>)
         /\ UNCHANGED <<task_exc, me_hits, inflight, user_seq, users, contacts, contact_seq, tokens, now>>
    ELSE /\ response' = Resp("request_email", email, 200, "",
                             Message(CHECK_EMAIL_CONFIRM), <<>>)
         /\ UNCHANGED <<task_exc, me_hits, inflight, user_seq, users, contacts, contact_seq, tokens, outbox, now>>

----------------------------------------------------------------------------
(* POST /auth/reset_password *)

CHECK_EMAIL_RESET == "Check your email for password reset instructions"
EMAIL_NOT_CONFIRMED_RESET == [status |-> 400, detail |-> "Your email address is not confirmed"]

(* The claims of a reset token: the email and the hash of the new password. *)
reset_claims(user, hashed_password) ==
    [sub |-> Some(user.email), password |-> Some(hashed_password)]

(* The tasks the handler hands to BackgroundTasks for the user it looked up. *)
reset_tasks_none(user, body, reset_token) == <<>>

reset_tasks(user, body, reset_token) ==
    <<ResetTask(body.email, user.username, reset_token)>>

(* A request-password-reset that stores the new hash at once. *)
reset_password_request_persisting(body) ==
    LET user == get_user_by_email(users, body.email) IN
    /\ user # None
    /\ \E salt \in Salts :
          users' = [i \in DOMAIN users |->
                       IF users[i].id = The(user).id
                       THEN [users[i] EXCEPT !.hashed_password =
                                                get_password_hash(body.password, salt)]
                       ELSE users[i]]
    /\ response' = Resp("reset_password_request", body, 200, "",
                        Message(CHECK_EMAIL_RESET), <<>>)
    /\ UNCHANGED <<task_exc, me_hits, inflight, user_seq, contacts, contact_seq, tokens, outbox, now>>

reset_password_request(body) ==
    LET user == get_user_by_email(users, body.email) IN
    IF user = None
    THEN /\ response' = Resp("reset_password_request", body, 200, "",
                             Message(CHECK_EMAIL_RESET), <<>>)
         /\ UNCHANGED <<task_exc, me_hits, inflight, user_seq, users, contacts, contact_seq, tokens, outbox, now>>
    ELSE IF ~The(user).confirmed
    THEN /\ response' = Raise("reset_password_request", body, EMAIL_NOT_CONFIRMED_RESET)
         /\ UNCHANGED <<task_exc, me_hits, inflight, user_seq, users, contacts, contact_seq, tokens, outbox, now>>
    ELSE \E salt \in Salts :
         LET hashed_password == get_password_hash(body.password, salt)
             reset_token == create_access_token(reset_claims(The(user), hashed_password),
                                                None, now, now)
             tasks == reset_tasks(The(user), body, reset_token)
         IN /\ Len(outbox) + Len(tasks) <= MaxPending
            /\ outbox' = outbox \o tasks
            /\ response' = Resp("reset_password_request", body, 200, "",
                                Message(CHECK_EMAIL_RESET), tasks)
            /\ UNCHANGED <<task_exc, me_hits, inflight, user_seq, users, contacts, contact_seq, tokens, now>>

----------------------------------------------------------------------------
(* GET /auth/confirm_reset_password/{token} *)

INVALID_OR_EXPIRED == [status |-> 400, detail |-> "Invalid or expired token"]
USER_NOT_FOUND == [status |-> 404, detail |-> "User with this email was not found"]
PASSWORD_CHANGED == "Password has been successfully changed"

(* UserRepository.reset_password: the table with the hash of row user_id replaced. *)
repo_reset_password(us, user_id, password) ==
    [i \in DOMAIN us |-> IF us[i].id = user_id
                         THEN [us[i] EXCEPT !.hashed_password = password] ELSE us[i]]

(* user_service.reset_password(user, hashed_password): UserService defines no  *)
(* reset_password, so the call raises AttributeError before any repository     *)
(* code runs.                                                                  *)
service_reset_password(us, user, password) ==
    [ok |-> FALSE, exc |-> "AttributeError", users |-> us]

(* The request arrives: both accessors decode the token, then              *)
(* await user_service.get_user_by_email(email).                            *)
confirm_reset_password(token) ==
    LET email == get_email_from_token(token, now)
        hashed_password == get_password_from_token(token, now)
    IN /\ IF ~email.ok
          THEN /\ response' = Raise("confirm_reset_password", token, EMAIL_TOKEN_ERROR)
               /\ UNCHANGED inflight
          ELSE IF hashed_password.exc = "HTTPException"
          THEN /\ response' = Raise("confirm_reset_password", token, WRONG_TOKEN)
               /\ UNCHANGED inflight
          ELSE IF hashed_password.exc = "KeyError"
          THEN /\ response' = Resp("confirm_reset_password", token, SERVER_ERROR.status,
                                   "KeyError", <<>>, <<>>)
               /\ UNCHANGED inflight
          ELSE IF email.value = "" \/ hashed_password.value = None
          THEN /\ response' = Raise("confirm_reset_password", token, INVALID_OR_EXPIRED)
               /\ UNCHANGED inflight
          ELSE /\ BagCardinality(inflight) < MaxInflight
               /\ inflight' = Suspend([pc |-> "confirm_reset_password_lookup",
                                        token |-> token, email |-> email.value,
                                        hashed_password |-> The(hashed_password.value)])
               /\ UNCHANGED response
       /\ UNCHANGED <<task_exc, me_hits, user_seq, users, contacts, contact_seq, tokens, outbox, now>>

(* The SELECT answers: the 404, or await user_service.reset_password(...). *)
confirm_reset_password_lookup(r) ==
    /\ BagIn(r, inflight)
    /\ r.pc = "confirm_reset_password_lookup"
    /\ inflight' = Resume(r)
    /\ LET user == get_user_by_email(users, r.email) IN
       IF user = None
       THEN /\ response' = Raise("confirm_reset_password", r.token, USER_NOT_FOUND)
            /\ UNCHANGED users
       ELSE LET reset == service_reset_password(users, The(user), r.hashed_password) IN
            IF reset.ok
            THEN /\ users' = reset.users
                 /\ response' = Resp("confirm_reset_password", r.token, 200, "",
                                     Message(PASSWORD_CHANGED), <<>>)
            ELSE /\ response' = Resp("confirm_reset_password", r.token, SERVER_ERROR.status,
                                     reset.exc, <<>>, <<>>)
                 /\ UNCHANGED users
    /\ UNCHANGED <<task_exc, me_hits, user_seq, contacts, contact_seq, tokens, outbox, now>>

----------------------------------------------------------------------------
(* Background mail tasks, run after the response of the request that added  *)
(* them.                                                                   *)

RemoveAt(s, i) == SubSeq(s, 1, i - 1) \o SubSeq(s, i + 1, Len(s))

(* The claims of an email-confirmation token. *)
confirm_claims(to_email) == [sub |-> Some(to_email), password |-> None]

(* What the mail transport does with a message: it is delivered, the      *)
(* server cannot be connected to (fastapi-mail raises ConnectionErrors), or *)
(* the server refuses the message while it is sent (an SMTPException of the *)
(* SMTP client, which fastapi-mail passes on).                             *)
MailOutcomes == {"sent", "ConnectionErrors", "SMTPException"}

(* The recipient check of MessageSchema, on the strings of the model: the  *)
(* members of Emails are addresses, no other string is.                    *)
is_email_address(to_email) == to_email \in Emails

(* The body of a mail task under try/except ConnectionErrors: a            *)
(* ConnectionErrors is printed and the task ends; any other exception      *)
(* leaves the task. message is the token the mail carries.                 *)
send_message(to_email, message, outcome) ==
    IF ~is_email_address(to_email)
    THEN /\ tokens' = tokens
         /\ task_exc' = "ValidationError"
    ELSE IF outcome = "sent"
    THEN /\ message \in tokens \/ Cardinality(tokens) < MaxTokens
         /\ tokens' = tokens \cup {message}
         /\ task_exc' = "none"
    ELSE /\ tokens' = tokens
         /\ task_exc' = IF outcome = "ConnectionErrors" THEN "none" ELSE outcome

send_confirm_email(i, outcome) ==
    /\ i \in DOMAIN outbox
    /\ outbox[i].kind = "send_confirm_email"
    /\ send_message(outbox[i].to_email,
                    create_email_token(confirm_claims(outbox[i].to_email), now, now),
                    outcome)
    /\ outbox' = RemoveAt(outbox, i)
    /\ UNCHANGED <<me_hits, inflight, user_seq, users, contacts, contact_seq, now, response>>

send_reset_password_email(i, outcome) ==
    /\ i \in DOMAIN outbox
    /\ outbox[i].kind = "send_reset_password_email"
    /\ send_message(outbox[i].to_email, The(outbox[i].reset_token), outcome)
    /\ outbox' = RemoveAt(outbox, i)
    /\ UNCHANGED <<me_hits, inflight, user_seq, users, contacts, contact_seq, now, response>>

----------------------------------------------------------------------------
(* The auth workflow. *)

(* The registrations of the auth workflow: every username with every email. *)
AuthBodies == {d \in UserCreateBodies : d.role = "user"}

NoResponse == Resp("none", "", 0, "", <<>>, <<>>)

Init ==
    /\ users = <<>>
    /\ user_seq = 0
    /\ contacts = {}
    /\ contact_seq = 0
    /\ tokens = {}
    /\ outbox = <<>>
    /\ now = 0
    /\ response = NoResponse
    /\ inflight = EmptyBag
    /\ me_hits = NoHits
    /\ task_exc = "none"

Next ==
    \/ \E user_data \in AuthBodies : register_user(user_data)
    \/ \E r \in Suspended : register_check_username(r)
    \/ \E r \in Suspended : register_create_user(r)
    \/ \E r \in Suspended : register_refresh_user(r)
    \/ \E form_data \in LoginForms : login_user(form_data)
    \/ \E token \in PresentableTokens : confirmed_email(token)
    \/ \E r \in Suspended : confirmed_email_lookup(r)
    \/ \E r \in Suspended : confirmed_email_commit(r)
    \/ \E email \in Emails : request_email(email)
    \/ \E body \in ResetPasswordBodies : reset_password_request(body)
    \/ \E token \in PresentableTokens : confirm_reset_password(token)
    \/ \E r \in Suspended : confirm_reset_password_lookup(r)
    \/ \E i \in 1..MaxPending, outcome \in MailOutcomes \ {"SMTPException"} : send_confirm_email(i, outcome)
    \/ \E i \in 1..MaxPending, outcome \in MailOutcomes \ {"SMTPException"} : send_reset_password_email(i, outcome)

Spec == Init /\ [][Next]_vars

----------------------------------------------------------------------------
(* Contacts. Text columns that are searched are sequences of characters;   *)
(* created_at and updated_at are left out.                                 *)

Date(y, m, d) == [year |-> y, month |-> m, day |-> d]

An ==
    [name |-> <<"a", "n">>, surname |-> <<"l", "i">>, email |-> <<"a", "@", "x", ".", "i", "o">>,
     birthday |-> Date(1990, 12, 30)]
Bo ==
    [name |-> <<"b", "o">>, surname |-> <<"l", "u">>, email |-> <<"b", "@", "x", ".", "i", "o">>,
     birthday |-> Date(1992, 1, 3)]
People == {An, Bo}

(* The fields every request sets. *)
RequiredFields == {"name", "surname", "email", "phone", "birthday"}

(* ContactModel: a validated request body. info is None when the request   *)
(* leaves it unset or sends null; model_fields_set tells the two apart.    *)
ContactModel(p, phone, info, fields_set) ==
    [name |-> p.name, surname |-> p.surname, email |-> p.email, phone |-> phone,
     birthday |-> p.birthday, info |-> info, model_fields_set |-> fields_set]

(* Request bodies: one that leaves info unset, one that sets it, one that  *)
(* sends null; the first and the third share an email, the second and the  *)
(* third a phone.                                                          *)
ContactBodies ==
    { ContactModel(An, "111-1111", None, RequiredFields),
      ContactModel(Bo, "222-2222", Some("note"), RequiredFields \cup {"info"}),
      ContactModel(An, "222-2222", None, RequiredFields \cup {"info"}) }

ContactIds == 1..MaxContacts

NOT_FOUND == [status |-> 404, detail |-> "Contact not found"]

(* The 400 of ContactService.create_contact; its detail quotes email and phone. *)
CONTACT_EXISTS(email, phone) ==
    [status |-> 400, detail |-> <<"Contact with email or phone number already exists", email, phone>>]

(* A contacts table without unique constraints: every commit goes through. *)
contacts_unique_ok_unconstrained(cs, row) == TRUE

(* The unique constraints of the contacts table (email, phone), as the     *)
(* commit enforces them over every row of the table.                       *)
contacts_unique_ok(cs, row) ==
    \A c \in cs : c.id # row.id => (c.email # row.email /\ c.phone # row.phone)

(* select(Contact).filter_by(id=contact_id) without the owner. *)
get_contact_by_id_any_owner(cs, contact_id, user) ==
    {c \in cs : c.id = contact_id}

get_contact_by_id(cs, contact_id, user) ==
    {c \in cs : c.id = contact_id /\ c.user_id = user.id}

is_contact_exists(cs, email, phone, user) ==
    \E c \in cs : c.user_id = user.id /\ (c.email = email \/ c.phone = phone)

(* The row built from the fields the body sets and the owner, with the next id. *)
repo_create_contact(seq, body, user) ==
    [id |-> seq + 1, name |-> body.name, surname |-> body.surname, email |-> body.email,
     phone |-> body.phone, birthday |-> body.birthday, info |-> body.info,
     user_id |-> user.id]

(* setattr for every key of body.model_dump(exclude_unset=True): info only *)
(* when the request sets it, to a string or to null.                       *)
apply_update(contact, body) ==
    [contact EXCEPT !.name = body.name, !.surname = body.surname, !.email = body.email,
                    !.phone = body.phone, !.birthday = body.birthday,
                    !.info = IF "info" \in body.model_fields_set THEN body.info ELSE @]

(* The row of the table with the primary key of a loaded object, if any. *)
row_by_id(cs, id) == {c \in cs : c.id = id}

(* The UPDATE the session flushes for a loaded object: it sets the columns *)
(* whose value differs from the value loaded, on the row as it is now.     *)
flush_update(current, loaded, target) ==
    [current EXCEPT
        !.name = IF target.name # loaded.name THEN target.name ELSE @,
        !.surname = IF target.surname # loaded.surname THEN target.surname ELSE @,
        !.email = IF target.email # loaded.email THEN target.email ELSE @,
        !.phone = IF target.phone # loaded.phone THEN target.phone ELSE @,
        !.birthday = IF target.birthday # loaded.birthday THEN target.birthday ELSE @,
        !.info = IF target.info # loaded.info THEN target.info ELSE @]

----------------------------------------------------------------------------
(* POST /contacts/ *)

(* The requests suspended before their INSERT: each will take one value   *)
(* of the contacts id sequence.                                            *)
PendingInserts ==
    BagCardinality([r \in {x \in Suspended : x.pc = "create_contact_commit"} |-> inflight[r]])

(* The handler runs for the principal user up to                          *)
(* await self.repository.is_contact_exists(...); pending are the requests *)
(* that stay suspended.                                                    *)
create_contact_handler(pending, body, user) ==
    LET req == [body |-> body, user |-> user.id] IN
    /\ IF is_contact_exists(contacts, body.email, body.phone, user)
       THEN /\ response' = Raise("create_contact", req,
                                 CONTACT_EXISTS(body.email, body.phone))
            /\ inflight' = pending
       ELSE /\ BagCardinality(pending) < MaxInflight
            /\ contact_seq + PendingInserts < MaxContacts
            /\ inflight' = pending (+) SetToBag({[pc |-> "create_contact_commit",
                                                  body |-> body, user |-> user]})
            /\ UNCHANGED response
    /\ UNCHANGED <<task_exc, me_hits, users, user_seq, contacts, contact_seq, tokens, outbox, now>>

(* The request of the principal user arrives. *)
create_contact(body, user) == create_contact_handler(inflight, body, user)

(* self.db.add(contact); await self.db.commit(): the INSERT takes the next *)
(* id of the sequence whether or not its commit goes through.              *)
create_contact_commit(r) ==
    /\ BagIn(r, inflight)
    /\ r.pc = "create_contact_commit"
    /\ contact_seq < MaxContacts
    /\ contact_seq' = contact_seq + 1
    /\ LET req == [body |-> r.body, user |-> r.user.id]
           contact == repo_create_contact(contact_seq, r.body, r.user)
       IN IF contacts_unique_ok(contacts, contact)
          THEN /\ contacts' = contacts \cup {contact}
               /\ inflight' = Resume(r) (+) SetToBag({[pc |-> "create_contact_refresh",
                                                       body |-> r.body, user |-> r.user,
                                                       row |-> contact]})
               /\ UNCHANGED response
          ELSE \* IntegrityError at commit: rolled back and re-raised, nothing catches it
               /\ contacts' = contacts
               /\ inflight' = Resume(r)
               /\ response' = Resp("create_contact", req, SERVER_ERROR.status,
                                   "IntegrityError", <<>>, <<>>)
    /\ UNCHANGED <<task_exc, me_hits, users, user_seq, tokens, outbox, now>>

(* await self.db.refresh(contact): the row is read back by its id; the     *)
(* response is the row as it is now, or an error when it is gone.          *)
create_contact_refresh(r) ==
    /\ BagIn(r, inflight)
    /\ r.pc = "create_contact_refresh"
    /\ inflight' = Resume(r)
    /\ LET req == [body |-> r.body, user |-> r.user.id]
           current == row_by_id(contacts, r.row.id)
       IN response' = IF current = None
                      THEN Resp("create_contact", req, SERVER_ERROR.status,
                                "InvalidRequestError", <<>>, <<>>)
                      ELSE Resp("create_contact", req, 201, "", <<The(current)>>, <<>>)
    /\ UNCHANGED <<task_exc, me_hits, users, user_seq, contacts, contact_seq, tokens, outbox, now>>

----------------------------------------------------------------------------
(* GET /contacts/{contact_id} *)

get_contact(contact_id, user) ==
    LET req == [contact_id |-> contact_id, user |-> user.id]
        contact == get_contact_by_id(contacts, contact_id, user)
    IN /\ response' = IF contact = None THEN Raise("get_contact", req, NOT_FOUND)
                      ELSE Resp("get_contact", req, 200, "", <<The(contact)>>, <<>>)
       /\ UNCHANGED <<task_exc, me_hits, inflight, user_seq, users, contacts, contact_seq, tokens, outbox, now>>

----------------------------------------------------------------------------
(* PUT /contacts/{contact_id} *)

(* The handler runs for the principal user up to                          *)
(* await self.get_contact_by_id(contact_id, user); pending are the         *)
(* requests that stay suspended.                                           *)
update_contact_handler(pending, contact_id, body, user) ==
    LET req == [contact_id |-> contact_id, body |-> body, user |-> user.id]
        contact == get_contact_by_id(contacts, contact_id, user)
    IN /\ IF contact = None
          THEN /\ response' = Raise("update_contact", req, NOT_FOUND)
               /\ inflight' = pending
          ELSE /\ BagCardinality(pending) < MaxInflight
               /\ inflight' = pending (+) SetToBag({[pc |-> "update_contact_commit",
                                                     contact_id |-> contact_id,
                                                     body |-> body, user |-> user,
                                                     row |-> The(contact)]})
               /\ UNCHANGED response
       /\ UNCHANGED <<task_exc, me_hits, users, user_seq, contacts, contact_seq, tokens, outbox, now>>

(* The request of the principal user arrives. *)
update_contact(contact_id, body, user) ==
    update_contact_handler(inflight, contact_id, body, user)

(* The setattr loop and await self.db.commit(). Nothing is sent when no    *)
(* attribute differs from the row read; an UPDATE that finds its row gone  *)
(* raises StaleDataError, one that breaks a unique constraint raises       *)
(* IntegrityError; both are rolled back and re-raised.                     *)
update_contact_commit(r) ==
    /\ BagIn(r, inflight)
    /\ r.pc = "update_contact_commit"
    /\ LET req == [contact_id |-> r.contact_id, body |-> r.body, user |-> r.user.id]
           target == apply_update(r.row, r.body)
           current == row_by_id(contacts, r.row.id)
           refresh == [r EXCEPT !.pc = "update_contact_refresh"]
       IN IF target = r.row
          THEN /\ inflight' = Resume(r) (+) SetToBag({refresh})
               /\ UNCHANGED <<contacts, response>>
          ELSE IF current = None
          THEN /\ inflight' = Resume(r)
               /\ response' = Resp("update_contact", req, SERVER_ERROR.status,
                                   "StaleDataError", <<>>, <<>>)
               /\ UNCHANGED contacts
          ELSE LET updated == flush_update(The(current), r.row, target) IN
               IF contacts_unique_ok(contacts, updated)
               THEN /\ contacts' = (contacts \ current) \cup {updated}
                    /\ inflight' = Resume(r) (+) SetToBag({refresh})
                    /\ UNCHANGED response
               ELSE /\ inflight' = Resume(r)
                    /\ response' = Resp("update_contact", req, SERVER_ERROR.status,
                                        "IntegrityError", <<>>, <<>>)
                    /\ UNCHANGED contacts
    /\ UNCHANGED <<task_exc, me_hits, users, user_seq, contact_seq, tokens, outbox, now>>

(* await self.db.refresh(contact): the response is the row as it is now. *)
update_contact_refresh(r) ==
    /\ BagIn(r, inflight)
    /\ r.pc = "update_contact_refresh"
    /\ inflight' = Resume(r)
    /\ LET req == [contact_id |-> r.contact_id, body |-> r.body, user |-> r.user.id]
           current == row_by_id(contacts, r.row.id)
       IN response' = IF current = None
                      THEN Resp("update_contact", req, SERVER_ERROR.status,
                                "InvalidRequestError", <<>>, <<>>)
                      ELSE Resp("update_contact", req, 200, "", <<The(current)>>, <<>>)
    /\ UNCHANGED <<task_exc, me_hits, users, user_seq, contacts, contact_seq, tokens, outbox, now>>

----------------------------------------------------------------------------
(* DELETE /contacts/{contact_id} *)

(* await self.db.delete(contact); await self.db.commit(): the DELETE goes  *)
(* by the id of the row read; a DELETE that finds no row only warns. The   *)
(* response is the contact as it was read.                                 *)
remove_contact_commit(r) ==
    /\ BagIn(r, inflight)
    /\ r.pc = "remove_contact_commit"
    /\ inflight' = Resume(r)
    /\ contacts' = contacts \ row_by_id(contacts, r.row.id)
    /\ response' = Resp("remove_contact", [contact_id |-> r.contact_id, user |-> r.user.id],
                        200, "", <<r.row>>, <<>>)
    /\ UNCHANGED <<task_exc, me_hits, users, user_seq, contact_seq, tokens, outbox, now>>

(* The handler runs for the principal user up to                          *)
(* await self.get_contact_by_id(contact_id, user); pending are the         *)
(* requests that stay suspended.                                           *)
remove_contact_handler(pending, contact_id, user) ==
    LET req == [contact_id |-> contact_id, user |-> user.id]
        contact == get_contact_by_id(contacts, contact_id, user)
    IN /\ IF contact = None
          THEN /\ response' = Raise("remove_contact", req, NOT_FOUND)
               /\ inflight' = pending
          ELSE /\ BagCardinality(pending) < MaxInflight
               /\ inflight' = pending (+) SetToBag({[pc |-> "remove_contact_commit",
                                                     contact_id |-> contact_id,
                                                     user |-> user, row |-> The(contact)]})
               /\ UNCHANGED response
       /\ UNCHANGED <<task_exc, me_hits, users, user_seq, contacts, contact_seq, tokens, outbox, now>>

(* The request of the principal user arrives. *)
remove_contact(contact_id, user) == remove_contact_handler(inflight, contact_id, user)

----------------------------------------------------------------------------
(* GET /contacts/ *)

(* SQL LIKE: % matches any run of characters, _ any one character. *)
RECURSIVE like(_, _)
like(s, pattern) ==
    IF pattern = <<>> THEN s = <<>>
    ELSE IF Head(pattern) = "%"
         THEN like(s, Tail(pattern)) \/ (s # <<>> /\ like(Tail(s), pattern))
         ELSE /\ s # <<>>
              /\ Head(pattern) = "_" \/ Head(pattern) = Head(s)
              /\ like(Tail(s), Tail(pattern))

(* Column.contains(other): column LIKE '%' || other || '%'. *)
column_contains(column, other) == like(column, <<"%">> \o other \o <<"%">>)

(* The rows the query of get_contacts selects, before offset and limit. *)
get_contacts_rows(cs, name, surname, email, user) ==
    {c \in cs : /\ c.user_id = user.id
                /\ column_contains(c.name, name)
                /\ column_contains(c.surname, surname)
                /\ column_contains(c.email, email)}

(* The orders a query may return a set of rows in. *)
Orderings(rows) ==
    {o \in [1..Cardinality(rows) -> rows] : \A i, j \in DOMAIN o : i # j => o[i] # o[j]}

Min(a, b) == IF a <= b THEN a ELSE b

(* OFFSET skip LIMIT limit over the rows in the order the database gives. *)
offset_limit(rows, skip, limit) == SubSeq(rows, skip + 1, Min(Len(rows), skip + limit))

NameFilters == {<<>>, <<"a">>, <<"a", "_">>}
SurnameFilters == {<<>>, <<"u">>}
EmailFilters == {<<>>, <<"b", "@">>}
Skips == {0, 1}
Limits == {1, 100}

get_contacts(name, surname, email, skip, limit, user) ==
    LET req == [name |-> name, surname |-> surname, email |-> email,
                skip |-> skip, limit |-> limit, user |-> user.id]
    IN /\ \E rows \in Orderings(get_contacts_rows(contacts, name, surname, email, user)) :
             response' = Resp("get_contacts", req, 200, "",
                              offset_limit(rows, skip, limit), <<>>)
       /\ UNCHANGED <<task_exc, me_hits, inflight, user_seq, users, contacts, contact_seq, tokens, outbox, now>>

----------------------------------------------------------------------------
(* GET /contacts/birthdays *)

IsLeap(y) == (y % 4 = 0 /\ y % 100 # 0) \/ y % 400 = 0

DaysInMonth(y, m) ==
    IF m = 2 THEN (IF IsLeap(y) THEN 29 ELSE 28)
    ELSE IF m \in {4, 6, 9, 11} THEN 30 ELSE 31

NextDay(d) ==
    IF d.day < DaysInMonth(d.year, d.month) THEN Date(d.year, d.month, d.day + 1)
    ELSE IF d.month < 12 THEN Date(d.year, d.month + 1, 1)
    ELSE Date(d.year + 1, 1, 1)

(* date + timedelta(days=n) *)
RECURSIVE AddDays(_, _)
AddDays(d, n) == IF n = 0 THEN d ELSE AddDays(NextDay(d), n - 1)

(* date_part('day', d) *)
date_part_day(d) == d.day

(* The WHERE clause without its branch for a window that wraps. *)
birthday_filter_between_only(birthday, today, end_date) ==
    /\ date_part_day(today) <= date_part_day(birthday)
    /\ date_part_day(birthday) <= date_part_day(end_date)

(* The WHERE clause of get_upcoming_birthdays on one birthday. *)
birthday_filter(birthday, today, end_date) ==
    LET b == date_part_day(birthday)
        t == date_part_day(today)
        e == date_part_day(end_date)
    IN \/ (t <= b /\ b <= e)
       \/ (e < t /\ (b >= t \/ b <= e))

(* The rows the query of get_upcoming_birthdays selects. *)
repo_get_upcoming_birthdays(cs, today, days, user) ==
    LET end_date == AddDays(today, days) IN
    {c \in cs : c.user_id = user.id /\ birthday_filter(c.birthday, today, end_date)}

(* ORDER BY date_part('day', birthday) ASC; rows of one day come in any order. *)
order_by_day(rows) ==
    {o \in Orderings(rows) :
        \A i, j \in DOMAIN o :
            i < j => date_part_day(o[i].birthday) <= date_part_day(o[j].birthday)}

get_upcoming_birthdays(today, days, user) ==
    LET req == [today |-> today, days |-> days, user |-> user.id] IN
    /\ \E rows \in order_by_day(repo_get_upcoming_birthdays(contacts, today, days, user)) :
          response' = Resp("get_upcoming_birthdays", req, 200, "", rows, <<>>)
    /\ UNCHANGED <<task_exc, me_hits, inflight, user_seq, users, contacts, contact_seq, tokens, outbox, now>>

----------------------------------------------------------------------------
(* The contact book of two registered, confirmed users. *)

RegisteredUsers ==
    LET alice == create_user(0, [username |-> "alice", email |-> "alice@x.com",
                                    password |-> get_password_hash("pass1", "saltA"),
                                    role |-> "user"], Gravatar("alice@x.com"))
        bob == create_user(1, [username |-> "bob@x.com", email |-> "bob@x.com",
                                       password |-> get_password_hash("pass1", "saltA"),
                                       role |-> "admin"], Gravatar("bob@x.com"))
    IN repo_confirmed_email(repo_confirmed_email(<<alice, bob>>, "alice@x.com"), "bob@x.com")

Todays == {Date(2024, 12, 28)}
Windows == {10}

InitContacts ==
    /\ users = RegisteredUsers
    /\ user_seq = Len(RegisteredUsers)
    /\ contacts = {}
    /\ contact_seq = 0
    /\ tokens = {}
    /\ outbox = <<>>
    /\ now = 0
    /\ response = NoResponse
    /\ inflight = EmptyBag
    /\ me_hits = NoHits
    /\ task_exc = "none"

(* The first user sends every request; the second user only creates,     *)
(* with the first body, so that contacts of two owners meet in the table.  *)
NextContacts ==
    \/ \E body \in ContactBodies, user \in Range(users) :
          /\ user = users[2] => body.phone = "111-1111"
          /\ create_contact(body, user)
    \/ \E r \in Suspended : create_contact_commit(r)
    \/ \E r \in Suspended : create_contact_refresh(r)
    \/ \E contact_id \in ContactIds : get_contact(contact_id, users[1])
    \/ \E contact_id \in ContactIds, body \in ContactBodies :
          update_contact(contact_id, body, users[1])
    \/ \E r \in Suspended : update_contact_commit(r)
    \/ \E r \in Suspended : update_contact_refresh(r)
    \/ \E contact_id \in ContactIds : remove_contact(contact_id, users[1])
    \/ \E r \in Suspended : remove_contact_commit(r)
    \/ get_contacts(<<>>, <<>>, <<>>, 0, 100, users[1])
    \/ \E today \in Todays, days \in Windows : get_upcoming_birthdays(today, days, users[1])

SpecContacts == InitContacts /\ [][NextContacts]_vars

----------------------------------------------------------------------------
(* Upcoming birthdays over the calendar: one contact born on any day of a  *)
(* leap year, asked about from any day of a winter that has a 29 February. *)

MaxWindow == 10

DaysOfMonth(y, m) == {Date(y, m, d) : d \in 1..DaysInMonth(y, m)}
AllBirthdays == UNION {DaysOfMonth(2000, m) : m \in 1..12}
WinterTodays == DaysOfMonth(2023, 12) \cup DaysOfMonth(2024, 1) \cup DaysOfMonth(2024, 2)

InitBirthdays ==
    /\ users = RegisteredUsers
    /\ user_seq = Len(RegisteredUsers)
    /\ \E b \in AllBirthdays :
          contacts = {repo_create_contact(0, ContactModel([An EXCEPT !.birthday = b], "111-1111",
                                                            None, RequiredFields), users[1])}
    /\ contact_seq = 1
    /\ tokens = {}
    /\ outbox = <<>>
    /\ now = 0
    /\ response = NoResponse
    /\ inflight = EmptyBag
    /\ me_hits = NoHits
    /\ task_exc = "none"

(* One query per behaviour: the query is a function of the table and its inputs. *)
NextBirthdays ==
    /\ response.op = "none"
    /\ \E today \in WinterTodays, days \in 1..MaxWindow :
          get_upcoming_birthdays(today, days, users[1])

SpecBirthdays == InitBirthdays /\ [][NextBirthdays]_vars

----------------------------------------------------------------------------
(* The two list queries over the tables the contact routes can leave       *)
(* behind: at most MaxContacts rows, created from the request bodies by    *)
(* either user, their ids distinct and the unique constraints kept.        *)

StoredRows ==
    {repo_create_contact(i - 1, b, u) :
       i \in ContactIds, b \in ContactBodies, u \in Range(RegisteredUsers)}

StoredTables ==
    {t \in SUBSET StoredRows :
       \A c \in t, d \in t : c # d => (c.id # d.id /\ contacts_unique_ok({d}, c))}

InitSearch ==
    /\ users = RegisteredUsers
    /\ user_seq = Len(RegisteredUsers)
    /\ contacts \in StoredTables
    /\ contact_seq = MaxContacts
    /\ tokens = {}
    /\ outbox = <<>>
    /\ now = 0
    /\ response = NoResponse
    /\ inflight = EmptyBag
    /\ me_hits = NoHits
    /\ task_exc = "none"

(* One query per behaviour: the query is a function of the table and its inputs. *)
NextSearch ==
    /\ response.op = "none"
    /\ \/ \E name \in NameFilters, surname \in SurnameFilters, email \in EmailFilters,
             skip \in Skips, limit \in Limits, user \in Range(users) :
             get_contacts(name, surname, email, skip, limit, user)
       \/ \E today \in Todays, days \in Windows, user \in Range(users) :
             get_upcoming_birthdays(today, days, user)

SpecSearch == InitSearch /\ [][NextSearch]_vars

----------------------------------------------------------------------------
(* The token service under a clock that advances: one token is minted and  *)
(* then decoded at later instants. The clock counts ticks; the exp and   *)
(* iat claims of a token count whole seconds.                              *)

ResetHash == get_password_hash("pass2", "saltA")
ClaimSets == {[sub |-> Some(e), password |-> p] : e \in Emails, p \in {None, Some(ResetHash)}}
Lifetimes == {None, Some(1), Some(2)}
MintInstants == {0, 1}
ClockInstants ==
    0..(3 * TicksPerSecond + 1)
        \cup {timedelta(JWT_EXPIRATION_SECONDS) + k : k \in -1..(TicksPerSecond + 1)}
        \cup {timedelta(EMAIL_TOKEN_SECONDS) + k : k \in 0..TicksPerSecond}

(* await create_access_token(data, expires_delta): the second reading of   *)
(* the clock falls in the same tick or in the next.                        *)
mint_token(data, expires_delta) ==
    /\ tokens = {}
    /\ \E t_iat \in {now, now + 1} :
          LET access_token == create_access_token(data, expires_delta, now, t_iat) IN
          /\ tokens' = {access_token}
          /\ now' = t_iat
          /\ response' = Resp("create_access_token",
                              [data |-> data, expires_delta |-> expires_delta],
                              200, "", <<access_token>>, <<>>)
    /\ UNCHANGED <<task_exc, me_hits, inflight, user_seq, users, contacts, contact_seq, outbox>>

(* jwt.decode(token, JWT_SECRET, algorithms): the payload, or a JWTError. *)
decode_token(token) ==
    LET d == jwt_decode(token, JWT_SECRET, now) IN
    /\ response' = IF d.ok
                   THEN Resp("jwt_decode", token, 200, "", <<d.payload>>, <<>>)
                   ELSE Resp("jwt_decode", token, 0, "JWTError", <<>>, <<>>)
    /\ UNCHANGED <<task_exc, me_hits, inflight, user_seq, users, contacts, contact_seq, tokens, outbox, now>>

(* Time passes. *)
Tick(instants) ==
    /\ \E t \in instants : t > now /\ now' = t
    /\ UNCHANGED <<task_exc, me_hits, inflight, user_seq, users, contacts, contact_seq, tokens, outbox, response>>

InitTokens ==
    /\ users = <<>>
    /\ user_seq = 0
    /\ contacts = {}
    /\ contact_seq = 0
    /\ tokens = {}
    /\ outbox = <<>>
    /\ now \in MintInstants
    /\ response = NoResponse
    /\ inflight = EmptyBag
    /\ me_hits = NoHits
    /\ task_exc = "none"

NextTokens ==
    \/ \E data \in ClaimSets, expires_delta \in Lifetimes : mint_token(data, expires_delta)
    \/ \E token \in tokens : decode_token(token)
    \/ Tick(ClockInstants)

SpecTokens == InitTokens /\ [][NextTokens]_vars

----------------------------------------------------------------------------
(* Password reset of two registered, confirmed users under the clock. *)

InitReset ==
    /\ users = RegisteredUsers
    /\ user_seq = Len(RegisteredUsers)
    /\ contacts = {}
    /\ contact_seq = 0
    /\ tokens = {}
    /\ outbox = <<>>
    /\ now = 0
    /\ response = NoResponse
    /\ inflight = EmptyBag
    /\ me_hits = NoHits
    /\ task_exc = "none"

NextReset ==
    \/ \E body \in ResetPasswordBodies : reset_password_request(body)
    \/ \E i \in 1..MaxPending, outcome \in MailOutcomes \ {"SMTPException"} : send_reset_password_email(i, outcome)
    \/ \E token \in PresentableTokens : confirm_reset_password(token)
    \/ \E r \in Suspended : confirm_reset_password_lookup(r)
    \/ Tick(ClockInstants)

SpecReset == InitReset /\ [][NextReset]_vars

----------------------------------------------------------------------------
(* Resolving the principal of a bearer token, and the routes of /users. *)

CREDENTIALS_EXCEPTION == [status |-> 401, detail |-> "Could not validate credentials"]
PERMISSION_DENIED == [status |-> 403, detail |-> "Permission denied"]

(* get_current_admin_user that lets every principal through. *)
get_current_admin_user_any_role(current_user) ==
    [ok |-> TRUE, user |-> Some(current_user), exc |-> PERMISSION_DENIED]

(* get_current_admin_user: the principal when its role is admin, or the 403. *)
get_current_admin_user(current_user) ==
    IF current_user.role # "admin"
    THEN [ok |-> FALSE, user |-> None, exc |-> PERMISSION_DENIED]
    ELSE [ok |-> TRUE, user |-> Some(current_user), exc |-> PERMISSION_DENIED]

(* A token signed with the secret that carries no sub claim. *)
NoSubToken == jwt_encode([sub |-> None, password |-> None,
                          exp |-> timedelta(EMAIL_TOKEN_SECONDS), iat |-> 0], JWT_SECRET)

BearerTokens == PresentableTokens \cup {NoSubToken}

(* PATCH /users/avatar *)

AvatarFiles == {"cat.png"}

(* settings.CLD_NAME, settings.CLD_API_KEY, settings.CLD_API_SECRET: Settings *)
(* declares CLOUDINARY_NAME, CLOUDINARY_API_KEY and CLOUDINARY_API_SECRET and *)
(* ignores extra fields, so reading CLD_NAME raises AttributeError.           *)
settings_CLD == [ok |-> FALSE, exc |-> "AttributeError"]

(* UploadFileService.upload_file: the image is stored as RestApp/username, *)
(* and the URL is built from that public id, the 250x250 fill crop and the *)
(* version of the upload, the second it was made in.                       *)
upload_file(file, username, version) ==
    <<"cloudinary", "RestApp", username, 250, 250, "fill", version>>

(* UserRepository.update_avatar_url: the table with the avatar of the row of email replaced. *)
repo_update_avatar_url(us, email, url) ==
    [i \in DOMAIN us |-> IF us[i].email = email
                         THEN [us[i] EXCEPT !.avatar = url] ELSE us[i]]

(* Depends(get_current_user) of a route up to its await: the token of the  *)
(* request is decoded and its sub claim read; the request then waits for   *)
(* the SELECT of the user. req is the request with its bearer token.       *)
get_current_user_decode(route, req) ==
    LET d == jwt_decode(req.token, JWT_SECRET, now) IN
    /\ IF ~d.ok \/ d.payload.sub = None
       THEN /\ response' = Raise(route, req, CREDENTIALS_EXCEPTION)
            /\ UNCHANGED inflight
       ELSE /\ BagCardinality(inflight) < MaxInflight
            /\ inflight' = Suspend([pc |-> "get_user_by_username", route |-> route,
                                     req |-> req, username |-> The(d.payload.sub)])
            /\ UNCHANGED response
    /\ UNCHANGED <<task_exc, me_hits, users, user_seq, contacts, contact_seq, tokens, outbox, now>>

(* The SELECT of get_current_user with a missing user reported as 404. *)
get_current_user_lookup_not_found(r) ==
    /\ BagIn(r, inflight)
    /\ r.pc = "get_user_by_username"
    /\ LET user == get_user_by_username(users, r.username) IN
       IF user = None
       THEN /\ response' = Raise(r.route, r.req, USER_NOT_FOUND)
            /\ inflight' = Resume(r)
       ELSE /\ inflight' = Resume(r) (+) SetToBag({[pc |-> "current_user", route |-> r.route,
                                                    req |-> r.req, user |-> The(user)]})
            /\ UNCHANGED response
    /\ UNCHANGED <<task_exc, me_hits, users, user_seq, contacts, contact_seq, tokens, outbox, now>>

(* user = await user_service.get_user_by_username(username): the 401 when  *)
(* no row has the username; otherwise the principal is resolved and the    *)
(* request goes on to the route's next dependency or to its handler.       *)
get_current_user_lookup(r) ==
    /\ BagIn(r, inflight)
    /\ r.pc = "get_user_by_username"
    /\ LET user == get_user_by_username(users, r.username) IN
       IF user = None
       THEN /\ response' = Raise(r.route, r.req, CREDENTIALS_EXCEPTION)
            /\ inflight' = Resume(r)
       ELSE /\ inflight' = Resume(r) (+) SetToBag({[pc |-> "current_user", route |-> r.route,
                                                    req |-> r.req, user |-> The(user)]})
            /\ UNCHANGED response
    /\ UNCHANGED <<task_exc, me_hits, users, user_seq, contacts, contact_seq, tokens, outbox, now>>

(* GET /users/me once its principal is resolved: the rate limit wraps the *)
(* handler and counts the requests that reach it; the handler answers     *)
(* with the principal.                                                     *)
me(r) ==
    /\ BagIn(r, inflight)
    /\ r.pc = "current_user"
    /\ r.route = "me"
    /\ inflight' = Resume(r)
    /\ LET hit == limiter_hit(me_hits, now) IN
       /\ me_hits' = hit
       /\ response' = IF hit.count <= RATE_LIMIT
                      THEN Resp("me", r.req, 200, "", <<UserOut(r.user)>>, <<>>)
                      ELSE Raise("me", r.req, RATE_LIMIT_EXCEEDED)
    /\ UNCHANGED <<task_exc, user_seq, users, contacts, contact_seq, tokens, outbox, now>>

(* PATCH /users/avatar once its principal is resolved: get_current_admin_user, a sync dependency    *)
(* run in the threadpool, then the handler with the admin it returns.      *)
update_avatar_user(r) ==
    /\ BagIn(r, inflight)
    /\ r.pc = "current_user"
    /\ r.route = "update_avatar_user"
    /\ inflight' = Resume(r)
    /\ LET admin == get_current_admin_user(r.user) IN
       IF ~admin.ok
       THEN /\ response' = Raise("update_avatar_user", r.req, admin.exc)
            /\ UNCHANGED users
       ELSE IF ~settings_CLD.ok
       THEN /\ response' = Resp("update_avatar_user", r.req, SERVER_ERROR.status,
                                settings_CLD.exc, <<>>, <<>>)
            /\ UNCHANGED users
       ELSE LET user == The(admin.user)
                avatar_url == upload_file(r.req.file, user.username, timegm(now))
                updated == repo_update_avatar_url(users, user.email, avatar_url)
            IN /\ users' = updated
               /\ response' = Resp("update_avatar_user", r.req, 200, "",
                                   <<UserOut(The(get_user_by_email(updated, user.email)))>>,
                                   <<>>)
    /\ UNCHANGED <<task_exc, me_hits, user_seq, contacts, contact_seq, tokens, outbox, now>>

(* Two registered, confirmed users, one of them an admin, who log in, ask *)
(* for password resets and call GET /users/me while time passes.          *)

SessionInstants == {1, timedelta(JWT_EXPIRATION_SECONDS), timedelta(JWT_EXPIRATION_SECONDS + 1)}

InitUsers ==
    /\ users = RegisteredUsers
    /\ user_seq = Len(RegisteredUsers)
    /\ contacts = {}
    /\ contact_seq = 0
    /\ tokens = {}
    /\ outbox = <<>>
    /\ now = 0
    /\ response = NoResponse
    /\ inflight = EmptyBag
    /\ me_hits = NoHits
    /\ task_exc = "none"

(* A request that would be suspended is taken up only while fewer than     *)
(* MaxRoleInflight requests are suspended.                                 *)
RoleInflightBounded == BagCardinality(inflight') <= MaxRoleInflight

NextUsers ==
    \/ \E form_data \in LoginForms : login_user(form_data)
    \/ \E body \in ResetPasswordBodies : reset_password_request(body)
    \/ \E i \in 1..MaxPending, outcome \in MailOutcomes \ {"SMTPException"} : send_reset_password_email(i, outcome)
    \/ \E token \in BearerTokens :
          get_current_user_decode("me", [token |-> token]) /\ RoleInflightBounded
    \/ \E r \in Suspended : get_current_user_lookup(r)
    \/ \E r \in Suspended : me(r)
    \/ Tick(SessionInstants)

SpecUsers == InitUsers /\ [][NextUsers]_vars

(* The same two users log in and call PATCH /users/avatar while time       *)
(* passes.                                                                 *)
NextAvatar ==
    \/ \E form_data \in LoginForms : login_user(form_data)
    \/ \E token \in BearerTokens, file \in AvatarFiles : get_current_user_decode("update_avatar_user", [token |-> token, file |-> file])
    \/ \E r \in Suspended : get_current_user_lookup(r)
    \/ \E r \in Suspended : update_avatar_user(r)
    \/ Tick(SessionInstants)

SpecAvatar == InitUsers /\ [][NextAvatar]_vars

----------------------------------------------------------------------------
(* Racing registrations together with confirmation, password reset and    *)
(* the avatar route.                                                       *)

(* The bodies of the racing requests: every username with every email. *)
RaceBodies == {d \in UserCreateBodies : d.role = "admin"}

NextRace ==
    \/ \E user_data \in RaceBodies : register_user(user_data)
    \/ \E r \in Suspended : register_check_username(r)
    \/ \E r \in Suspended : register_create_user(r)
    \/ \E r \in Suspended : register_refresh_user(r)
    \/ \E i \in 1..MaxPending, outcome \in MailOutcomes \ {"SMTPException"} : send_confirm_email(i, outcome)
    \/ \E token \in PresentableTokens : confirmed_email(token)
    \/ \E r \in Suspended : confirmed_email_lookup(r)
    \/ \E r \in Suspended : confirmed_email_commit(r)
    \/ \E body \in ResetPasswordBodies : reset_password_request(body)
    \/ \E i \in 1..MaxPending, outcome \in MailOutcomes \ {"SMTPException"} : send_reset_password_email(i, outcome)
    \/ \E token \in PresentableTokens : confirm_reset_password(token)
    \/ \E r \in Suspended : confirm_reset_password_lookup(r)
    \/ \E token \in PresentableTokens, file \in AvatarFiles : get_current_user_decode("update_avatar_user", [token |-> token, file |-> file])
    \/ \E r \in Suspended : get_current_user_lookup(r)
    \/ \E r \in Suspended : update_avatar_user(r)

SpecRace == Init /\ [][NextRace]_vars

----------------------------------------------------------------------------
(* The mail tasks with every outcome of the transport, behind the routes    *)
(* that add them. UserCreate.email is a plain str, so a registration may    *)
(* carry an email that is no address.                                      *)

MailBodies ==
    { [username |-> "alice", email |-> "alice@x.com", password |-> "pass1", role |-> "user"],
      [username |-> "bob@x.com", email |-> "alice", password |-> "pass1", role |-> "user"] }

NextMail ==
    \/ \E user_data \in MailBodies : register_user(user_data)
    \/ \E r \in Suspended : register_check_username(r)
    \/ \E r \in Suspended : register_create_user(r)
    \/ \E r \in Suspended : register_refresh_user(r)
    \/ \E token \in PresentableTokens : confirmed_email(token)
    \/ \E r \in Suspended : confirmed_email_lookup(r)
    \/ \E r \in Suspended : confirmed_email_commit(r)
    \/ \E email \in Emails : request_email(email)
    \/ \E body \in ResetPasswordBodies : reset_password_request(body)
    \/ \E i \in 1..MaxPending, outcome \in MailOutcomes : send_confirm_email(i, outcome)
    \/ \E i \in 1..MaxPending, outcome \in MailOutcomes : send_reset_password_email(i, outcome)

SpecMail == Init /\ [][NextMail]_vars

----------------------------------------------------------------------------
(* Properties of the auth workflow. *)

EmailHeld(us, d) == \E u \in Range(us) : u.email = d.email
UsernameHeld(us, d) == \E u \in Range(us) : u.username = d.username
HeldBy(us, d) == EmailHeld(us, d) \/ UsernameHeld(us, d)

\* C2: a register whose email or username an existing user already holds
\* answers 409 and writes nothing: the users table is unchanged and no
\* confirmation mail is enqueued. The request is refused at its email lookup
\* when the email is held; when only the username is held it goes on,
\* nothing written, to its username lookup and is refused there (rows are
\* never removed and usernames never change, so the username is still held).
C2_RegisterConflictWritesNothing ==
    [][/\ \A d \in AuthBodies :
             (HeldBy(users, d) /\ register_user(d))
             => /\ users' = users
                /\ outbox' = outbox
                /\ IF EmailHeld(users, d)
                   THEN /\ response' = Raise("register_user", d, USER_EXISTS_EMAIL)
                        /\ response'.status = 409
                        /\ response'.tasks = <<>>
                        /\ inflight' = inflight
                   ELSE /\ response' = response
                        /\ inflight' = Suspend([pc |-> "check_username", user_data |-> d])
       /\ \A r \in Suspended :
             (register_check_username(r) /\ UsernameHeld(users, r.user_data))
             => /\ users' = users
                /\ outbox' = outbox
                /\ response' = Raise("register_user", r.user_data, USER_EXISTS_USERNAME)
                /\ response'.status = 409
                /\ response'.tasks = <<>>
                /\ inflight' = Resume(r)
       /\ \A i \in DOMAIN users :
             /\ i \in DOMAIN users'
             /\ users'[i].username = users[i].username
             /\ users'[i].email = users[i].email]_vars

\* A register was refused for its username alone (its email was free).
C2_Witness ==
    /\ response.op = "register_user"
    /\ response.status = 409
    /\ response.detail = USER_EXISTS_USERNAME.detail
    /\ \E u \in Range(users) : u.username = response.req.username
    /\ \A u \in Range(users) : u.email # response.req.email

\* C3: login with the right password for an unconfirmed user answers the
\* 'email not confirmed' error, which is not the 'invalid username or
\* password' error; an unknown username and a wrong password both answer
\* that one same 'invalid username or password' error.
C3_LoginErrors ==
    [][\A f \in LoginForms :
          login_user(f)
          => LET u == {x \in Range(users) : x.username = f.username} IN
             /\ u = {} => response' = Raise("login_user", f, INVALID_CREDENTIALS)
             /\ (u # {} /\ ~verify_password(f.password, The(u).hashed_password))
                   => response' = Raise("login_user", f, INVALID_CREDENTIALS)
             /\ (u # {} /\ verify_password(f.password, The(u).hashed_password)
                        /\ ~The(u).confirmed)
                   => /\ response' = Raise("login_user", f, EMAIL_NOT_CONFIRMED)
                      /\ response'.detail # INVALID_CREDENTIALS.detail]_vars

\* An unconfirmed user gave the right password and got 'email not confirmed'.
C3_Witness ==
    /\ response.op = "login_user"
    /\ response.detail = EMAIL_NOT_CONFIRMED.detail
    /\ \E u \in Range(users) :
          /\ u.username = response.req.username
          /\ verify_password(response.req.password, u.hashed_password)
          /\ ~u.confirmed

(* A token of the session shape: no password claim, the session lifetime. *)
IsSessionToken(t) ==
    /\ t.key = JWT_SECRET
    /\ t.claims.password = None
    /\ t.claims.exp - t.claims.iat = JWT_EXPIRATION_SECONDS

\* C4: every step that hands out a session token is a login of an existing
\* user whose supplied password verifies against the stored hash and whose
\* confirmation flag is true in that step; the token's sub is the username.
C4_SessionTokenOnlyForConfirmed ==
    [][\A t \in tokens' \ tokens :
          IsSessionToken(t)
          => \E f \in LoginForms, u \in Range(users) :
                /\ u.username = f.username
                /\ verify_password(f.password, u.hashed_password)
                /\ u.confirmed
                /\ t.claims.sub = Some(u.username)
                /\ response' = Resp("login_user", f, 200, "",
                                    <<[access_token |-> t, token_type |-> "bearer"]>>,
                                    <<>>)]_vars

\* A login succeeded and its session token is held.
C4_Witness ==
    /\ response.op = "login_user"
    /\ response.status = 200
    /\ response.body[1].access_token \in tokens
    /\ IsSessionToken(response.body[1].access_token)

\* C5: confirm-email with the token of a successful confirm-email, applied
\* again, succeeds with the 'already confirmed' message and changes nothing:
\* the state after two calls is the state after one. Users are confirmed
\* only by a successful confirm-email, so 'after a successful confirm-email
\* of t' is 't verifies and the user of its email is confirmed'. The write
\* of a confirm-email sets the flag and nothing else, so a call that another
\* call overtook between its lookup and its write leaves the table as the
\* first one left it.
C5_ConfirmEmailIdempotent ==
    [][/\ \A t \in PresentableTokens :
             LET email == get_email_from_token(t, now)
                 user == get_user_by_email(users, email.value)
             IN (/\ email.ok
                 /\ user # None
                 /\ The(user).confirmed
                 /\ confirmed_email(t))
                => /\ response'.status = 200
                   /\ response'.body = Message(ALREADY_CONFIRMED)
                   /\ UNCHANGED <<inflight, user_seq, users, contacts, contact_seq,
                                  tokens, outbox, now>>
       /\ \A r \in Suspended :
             confirmed_email_commit(r)
             => /\ repo_confirmed_email(users', r.email) = users'
                /\ (\E u \in Range(users) : u.email = r.email /\ u.confirmed)
                      => users' = users
                /\ response'.status = 200]_vars

\* A second confirm-email was answered 'already confirmed'.
C5_Witness ==
    /\ response.op = "confirmed_email"
    /\ response.status = 200
    /\ response.body = Message(ALREADY_CONFIRMED)
    /\ \E u \in Range(users) : Some(u.email) = response.req.claims.sub /\ u.confirmed

(* A token carrying a password claim for the email of an existing user. *)
IsValidResetToken(t, us, clock) ==
    /\ jwt_decode(t, JWT_SECRET, clock).ok
    /\ t.claims.password # None
    /\ \E u \in Range(us) : Some(u.email) = t.claims.sub

\* C6: confirm-password-reset with a valid reset token of an existing user
\* leaves that user's stored hash equal to the hash in the token (so the new
\* password logs in and the old one does not): the step that follows the
\* lookup of a request taken up with such a token writes the hash.
C6_ResetOverwritesHash ==
    [][\A r \in Suspended :
          (/\ confirm_reset_password_lookup(r)
           /\ \E u \in Range(users) : Some(u.email) = r.token.claims.sub)
          => \E u \in Range(users') :
                /\ Some(u.email) = r.token.claims.sub
                /\ Some(u.hashed_password) = r.token.claims.password]_vars

\* C7: request-password-reset answers an email no user has exactly as it
\* answers the email of a confirmed user (200, the same message); it adds
\* one reset mail task for the confirmed user and none for the unknown email.
C7_ResetRequestSameAnswer ==
    [][\A b \in ResetPasswordBodies :
          reset_password_request(b)
          => LET u == {x \in Range(users) : x.email = b.email} IN
             /\ u = {}
                   => /\ response'.status = 200
                      /\ response'.body = Message(CHECK_EMAIL_RESET)
                      /\ response'.tasks = <<>>
                      /\ outbox' = outbox
             /\ (u # {} /\ The(u).confirmed)
                   => /\ response'.status = 200
                      /\ response'.body = Message(CHECK_EMAIL_RESET)
                      /\ Len(response'.tasks) = 1
                      /\ response'.tasks[1].kind = "send_reset_password_email"
                      /\ response'.tasks[1].to_email = b.email
                      /\ outbox' = outbox \o response'.tasks]_vars

\* A confirmed user's reset request was answered and its one mail task added.
C7_Witness ==
    /\ response.op = "reset_password_request"
    /\ response.status = 200
    /\ Len(response.tasks) = 1
    /\ \E u \in Range(users) : u.email = response.req.email /\ u.confirmed

----------------------------------------------------------------------------
(* Properties of the contact book. *)

OwnedBy(cs, user_id) == {c \in cs : c.user_id = user_id}
NotOwnedBy(cs, user_id) == {c \in cs : c.user_id # user_id}

(* The rows of a response are rows of the table owned by the user. *)
AnswersOwnRows(resp, cs, user_id) ==
    \A i \in DOMAIN resp.body : resp.body[i] \in cs /\ resp.body[i].user_id = user_id

\* C1: every contact that get-by-id, search or upcoming-birthdays returns to
\* a principal is a row of the table owned by that principal, and an update
\* or delete issued by a principal leaves every row owned by anyone else as
\* it was: the row it read is its own, and the step that writes changes or
\* removes no row of another owner. Only a read stamps a read's response, so
\* a step that changes the response to a read's is that read.
C1_Isolation ==
    [][/\ (/\ response' # response
           /\ response'.op \in {"get_contact", "get_contacts", "get_upcoming_birthdays"})
          => AnswersOwnRows(response', contacts, response'.req.user)
       /\ \A r \in Suspended :
             (\/ update_contact_commit(r)
              \/ update_contact_refresh(r)
              \/ remove_contact_commit(r))
             => /\ r.row.user_id = r.user.id
                /\ NotOwnedBy(contacts', r.user.id) = NotOwnedBy(contacts, r.user.id)]_vars

\* A principal asked to update a contact that exists and is someone else's.
C1_Witness ==
    /\ response.op = "update_contact"
    /\ response.status = NOT_FOUND.status
    /\ \E c \in contacts : c.id = response.req.contact_id /\ c.user_id # response.req.user
    /\ OwnedBy(contacts, response.req.user) # {}

SameEmailAndPhone(c, body) == c.email = body.email /\ c.phone = body.phone
EmailOrPhone(c, body) == c.email = body.email \/ c.phone = body.phone

\* C8: duplicate prevention is per owner: when another user owns a contact
\* with the email and phone of the body and the caller owns none with that
\* email or phone, the caller's create-contact commits and adds the caller's
\* contact; when the caller already owns that contact, create-contact fails
\* with the conflict error and adds nothing.
C8_DuplicateScopedToOwner ==
    [][/\ \A r \in Suspended :
             (/\ create_contact_commit(r)
              /\ \E c \in NotOwnedBy(contacts, r.user.id) : SameEmailAndPhone(c, r.body)
              /\ \A c \in OwnedBy(contacts, r.user.id) : ~EmailOrPhone(c, r.body))
             => /\ \E c \in contacts' \ contacts :
                      c.user_id = r.user.id /\ SameEmailAndPhone(c, r.body)
                /\ response' = response
       /\ \A body \in ContactBodies, a \in Range(users) :
             (/\ create_contact(body, a)
              /\ \E c \in OwnedBy(contacts, a.id) : SameEmailAndPhone(c, body))
             => /\ response'.status = CONTACT_EXISTS(body.email, body.phone).status
                /\ contacts' = contacts]_vars

\* C9: create-contact by an owner who already owns a contact with the same
\* email or the same phone fails with the conflict error that quotes the
\* email and phone and writes nothing; otherwise it goes on to its commit,
\* which adds exactly one contact, owned by the caller.
C9_CreateConflictOrAdd ==
    [][/\ \A body \in ContactBodies, p \in Range(users) :
             create_contact(body, p)
             => IF \E c \in OwnedBy(contacts, p.id) : EmailOrPhone(c, body)
                THEN /\ response' = Raise("create_contact", [body |-> body, user |-> p.id],
                                          CONTACT_EXISTS(body.email, body.phone))
                     /\ contacts' = contacts
                     /\ inflight' = inflight
                ELSE /\ inflight' = Suspend([pc |-> "create_contact_commit",
                                             body |-> body, user |-> p])
                     /\ contacts' = contacts
       /\ \A r \in Suspended :
             create_contact_commit(r)
             => \E c \in contacts' :
                   /\ c \notin contacts
                   /\ contacts' = contacts \cup {c}
                   /\ c.user_id = r.user.id]_vars

(* The birthday's month and day fall on one of the days today .. today + n. *)
InCircularWindow(birthday, today, n) ==
    \E k \in 0..n :
        LET d == AddDays(today, k) IN d.month = birthday.month /\ d.day = birthday.day

\* C10: upcoming-birthdays(N, owner) returns a contact of the owner exactly
\* when the month and day of its birthday lie in the closed window
\* [today, today + N], both ends included, across the year's end too.
C10_BirthdaysExactlyWindow ==
    response.op = "get_upcoming_birthdays"
    => \A c \in OwnedBy(contacts, response.req.user) :
          (\E i \in DOMAIN response.body : response.body[i] = c)
          <=> InCircularWindow(c.birthday, response.req.today, response.req.days)

(* The response lists the contact. *)
Returned(c) == \E i \in DOMAIN response.body : response.body[i] = c

IsDec28Window10 ==
    /\ response.op = "get_upcoming_birthdays"
    /\ response.req.today.month = 12
    /\ response.req.today.day = 28
    /\ response.req.days = 10

\* C11: asked on December 28 with a window of 10 days, upcoming-birthdays
\* returns the owner's contact born on January 3 and does not return the
\* owner's contact born on December 20.
C11_Dec28Window10 ==
    IsDec28Window10
    => \A c \in OwnedBy(contacts, response.req.user) :
          /\ (c.birthday.month = 1 /\ c.birthday.day = 3) => Returned(c)
          /\ (c.birthday.month = 12 /\ c.birthday.day = 20) => ~Returned(c)

\* The query of December 28 with window 10 returned a contact born on January 3.
C11_Witness ==
    /\ IsDec28Window10
    /\ \E c \in OwnedBy(contacts, response.req.user) :
          c.birthday.month = 1 /\ c.birthday.day = 3 /\ Returned(c)

(* The lifetime in seconds of a minting request. *)
LifetimeOf(expires_delta) ==
    IF expires_delta = None THEN JWT_EXPIRATION_SECONDS ELSE The(expires_delta)

\* C12: a token minted from claims C with lifetime L at time t carries C's
\* fields unchanged with exp = t + L and iat = t, in the whole seconds a
\* token counts in (iat the second of any instant of the minting); decoding
\* it at any time before t + L returns exactly those claims, and decoding
\* it at any time after t + L fails.
C12_TokenRoundTripAndExpiry ==
    [][/\ \A C \in ClaimSets, L \in Lifetimes :
             mint_token(C, L)
             => \E tok \in tokens' :
                   /\ tokens' = {tok}
                   /\ tok.claims.sub = C.sub
                   /\ tok.claims.password = C.password
                   /\ tok.claims.exp = timegm(now + timedelta(LifetimeOf(L)))
                   /\ tok.claims.iat \in timegm(now)..timegm(now')
       /\ \A tok \in tokens :
             decode_token(tok)
             => \A C \in ClaimSets, L \in Lifetimes, t \in MintInstants \cup ClockInstants :
                   (\E t_iat \in {t, t + 1} : tok = create_access_token(C, L, t, t_iat))
                   => /\ now < t + timedelta(LifetimeOf(L))
                         => response'.status = 200 /\ response'.body = <<tok.claims>>
                      /\ now > t + timedelta(LifetimeOf(L))
                         => response'.detail = "JWTError" /\ response'.body = <<>>]_vars

(* The answers with which confirm-password-reset refuses a token. *)
TokenRejected(resp) ==
    resp.status \in {EMAIL_TOKEN_ERROR.status, WRONG_TOKEN.status, INVALID_OR_EXPIRED.status}

\* C13: a reset token minted by request-password-reset lives 7 days:
\* confirm-password-reset given it at any time up to 7 days after its
\* minting does not refuse it as a token but goes on to look its user up,
\* and at any later time refuses it.
C13_ResetTokenSevenDays ==
    [][\A t \in tokens :
          (t.claims.password # None /\ confirm_reset_password(t))
          => /\ timegm(now) <= t.claims.iat + EMAIL_TOKEN_SECONDS
                => \E r \in BagToSet(inflight') :
                      /\ r.pc = "confirm_reset_password_lookup"
                      /\ r.token = t
                      /\ inflight' = Suspend(r)
             /\ timegm(now) > t.claims.iat + EMAIL_TOKEN_SECONDS
                => /\ TokenRejected(response')
                   /\ inflight' = inflight]_vars

(* The token fails jose's checks at time t: a foreign signature, or past its exp. *)
BadSignatureOrExpired(tok, t) == tok.key # JWT_SECRET \/ tok.claims.exp < timegm(t)

(* The users whose username is the sub of the token. *)
NamedBySub(tok, us) == {u \in Range(us) : Some(u.username) = tok.claims.sub}

\* C14: resolve-principal answers the one generic 401 'could not validate
\* credentials' when the token's signature or expiry is invalid as the
\* request arrives, when it has no sub claim, and when the lookup finds no
\* user with the username in sub; otherwise a user with that username
\* exists and it returns exactly that user, whom GET /users/me then answers
\* with while the route's rate limit allows.
C14_ResolvePrincipal ==
    [][/\ \A tok \in BearerTokens :
             get_current_user_decode("me", [token |-> tok])
             => IF BadSignatureOrExpired(tok, now) \/ tok.claims.sub = None
                THEN /\ response' = Raise("me", [token |-> tok], CREDENTIALS_EXCEPTION)
                     /\ inflight' = inflight
                ELSE /\ response' = response
                     /\ inflight' = Suspend([pc |-> "get_user_by_username", route |-> "me",
                                              req |-> [token |-> tok],
                                              username |-> The(tok.claims.sub)])
       /\ \A r \in Suspended :
             get_current_user_lookup(r)
             => IF NamedBySub(r.req.token, users) = {}
                THEN /\ response' = Raise(r.route, r.req, CREDENTIALS_EXCEPTION)
                     /\ inflight' = Resume(r)
                ELSE /\ response' = response
                     /\ \E u \in NamedBySub(r.req.token, users) :
                           inflight' = Resume(r) (+) SetToBag({[pc |-> "current_user",
                                                                route |-> r.route,
                                                                req |-> r.req, user |-> u]})
       /\ \A r \in Suspended :
             me(r)
             => /\ Some(r.user.username) = r.req.token.claims.sub
                /\ IF limiter_hit(me_hits, now).count <= RATE_LIMIT
                   THEN response'.status = 200 /\ response'.body = <<UserOut(r.user)>>
                   ELSE response' = Raise("me", r.req, RATE_LIMIT_EXCEEDED)]_vars

\* A validly signed token with a sub that names no user, presented before
\* its expiry, got the 401.
C14_Witness ==
    /\ response.op = "me"
    /\ response.status = CREDENTIALS_EXCEPTION.status
    /\ ~BadSignatureOrExpired(response.req.token, now)
    /\ response.req.token.claims.sub # None
    /\ NamedBySub(response.req.token, users) = {}

(* The token resolves, at time t, to a user whose role lies in roles. *)
ResolvesToRole(tok, us, t, roles) ==
    /\ ~BadSignatureOrExpired(tok, t)
    /\ \E u \in NamedBySub(tok, us) : u.role \in roles

\* C15: an avatar update by a principal whose role is not admin answers
\* 403 'permission denied', which is not the 401, and writes nothing; a
\* user's avatar changes only in the step of an avatar update that follows
\* the admin check, for a principal who is an admin and whom the request's
\* token names, and then only in that admin's own record.
C15_RequireAdmin ==
    [][/\ \A r \in Suspended :
             (update_avatar_user(r) /\ r.user.role # "admin")
             => /\ response' = Raise("update_avatar_user", r.req, PERMISSION_DENIED)
                /\ response'.status # CREDENTIALS_EXCEPTION.status
                /\ users' = users
       /\ \A i \in DOMAIN users :
             users'[i].avatar # users[i].avatar
             => \E r \in Suspended :
                   /\ update_avatar_user(r)
                   /\ r.req.token.key = JWT_SECRET
                   /\ r.req.token.claims.sub = Some(r.user.username)
                   /\ r.user.role = "admin"
                   /\ r.user.id = users[i].id
                   /\ \A j \in DOMAIN users : j # i => users'[j] = users[j]]_vars

\* A logged-in user who is no admin asked for an avatar update and got the
\* 403 while the avatar update of a logged-in admin waits, its principal
\* resolved, for the admin check.
C15_Witness ==
    /\ response.op = "update_avatar_user"
    /\ response = Raise("update_avatar_user", response.req, PERMISSION_DENIED)
    /\ ResolvesToRole(response.req.token, users, now, Roles \ {"admin"})
    /\ \E r \in Suspended :
          /\ r.pc = "current_user"
          /\ r.route = "update_avatar_user"
          /\ r.user.role = "admin"

\* C16: in every reachable state, whatever the interleaving of register,
\* confirm-email, reset and avatar requests, no two distinct user records
\* share a username and no two share an email.
C16_UsersUnique ==
    \A i, j \in DOMAIN users :
        i # j => users[i].username # users[j].username /\ users[i].email # users[j].email

\* A register that had passed both pre-checks lost the race for its email
\* or username: its insert was refused and the table kept the winner's row.
C16_Witness ==
    /\ response.op = "register_user"
    /\ response.detail = "IntegrityError"
    /\ \E u \in Range(users) :
          u.email = response.req.email \/ u.username = response.req.username

(* The request resumes at its insert and another user now holds its email or username. *)
LostRace(r) ==
    /\ r.pc = "create_user"
    /\ \E u \in Range(users) :
          u.email = r.user_data.email \/ u.username = r.user_data.username

\* C17: when two registers with the same email or username both pass the
\* pre-checks before either commits, the one that commits second creates
\* no user and ends in a handled creation failure (the 409 conflict its
\* caller is told), not in an unhandled exception.
C17_RegisterRaceHandled ==
    [][\A r \in Suspended :
          (LostRace(r) /\ register_create_user(r))
          => /\ users' = users
             /\ response'.status = USER_EXISTS_EMAIL.status
             /\ response'.detail \in {USER_EXISTS_EMAIL.detail, USER_EXISTS_USERNAME.detail}]_vars

(* Both the email and the username of the body are held by existing users. *)
BothTaken(us, d) ==
    /\ \E u \in Range(us) : u.email = d.email
    /\ \E u \in Range(us) : u.username = d.username

\* C18 as stated: register checks the username before the email, so when
\* both are taken the conflict it reports names the username.
C18_UsernameCheckedFirst ==
    [][\A d \in UserCreateBodies :
          (BothTaken(users, d) /\ register_user(d))
          => response' = Raise("register_user", d, USER_EXISTS_USERNAME)]_vars

\* C18 amended: register checks the email before the username, so when both
\* are taken the conflict it reports names the email; the username is named
\* when the username alone is taken: the request then passes its email
\* lookup and is refused at its username lookup.
C18_EmailCheckedFirst ==
    [][/\ \A d \in AuthBodies :
             register_user(d)
             => /\ BothTaken(users, d)
                   => response' = Raise("register_user", d, USER_EXISTS_EMAIL)
                /\ (UsernameHeld(users, d) /\ ~EmailHeld(users, d))
                   => /\ response' = response
                      /\ inflight' = Suspend([pc |-> "check_username", user_data |-> d])
       /\ \A r \in Suspended :
             (register_check_username(r) /\ UsernameHeld(users, r.user_data))
             => response' = Raise("register_user", r.user_data, USER_EXISTS_USERNAME)]_vars

\* A register whose email and username were both taken was told about the email.
C18_Witness ==
    /\ response.op = "register_user"
    /\ response.detail = USER_EXISTS_EMAIL.detail
    /\ BothTaken(users, response.req)

(* The user owns no contact with the id. *)
NotOwnContact(cs, contact_id, user) == \A c \in OwnedBy(cs, user.id) : c.id # contact_id

\* C19: update and delete by a principal with an id that no contact has,
\* or that a contact of another principal has, answer the same 'not found'
\* in both cases and leave every contact record as it was: the request ends
\* at its lookup and nothing is written.
C19_NotFoundNoWrite ==
    [][\A contact_id \in ContactIds, user \in Range(users) :
          (/\ NotOwnContact(contacts, contact_id, user)
           /\ \/ \E body \in ContactBodies : update_contact(contact_id, body, user)
              \/ remove_contact(contact_id, user))
          => /\ response'.op \in {"update_contact", "remove_contact"}
             /\ response'.status = NOT_FOUND.status
             /\ response'.detail = NOT_FOUND.detail
             /\ response'.body = <<>>
             /\ UNCHANGED <<contacts, contact_seq, inflight>>]_vars

\* A delete of another principal's contact was answered 'not found' and the
\* contact is still there.
C19_Witness ==
    /\ response.op = "remove_contact"
    /\ response.status = NOT_FOUND.status
    /\ \E c \in contacts : c.id = response.req.contact_id /\ c.user_id # response.req.user

\* C20: confirm-password-reset given a validly signed, unexpired token that
\* has a sub claim but no password claim (an email-confirmation token) ends
\* in a handled client error (a 4xx answer) and changes no state.
C20_MissingClaimHandled ==
    [][\A t \in PresentableTokens :
          (/\ ~BadSignatureOrExpired(t, now)
           /\ t.claims.sub # None
           /\ t.claims.password = None
           /\ confirm_reset_password(t))
          => /\ response'.status \in 400..499
             /\ UNCHANGED <<users, contacts, contact_seq, tokens, outbox, now>>]_vars

\* C21: request-password-reset leaves every user's stored hash as it was,
\* and a user's stored hash changes only in a confirm-password-reset step
\* that presents a valid reset token for that user's email.
C21_HashChangesOnlyOnConfirm ==
    [][/\ \A b \in ResetPasswordBodies : reset_password_request(b) => users' = users
       /\ \A i \in DOMAIN users :
             (i \in DOMAIN users' /\ users'[i].hashed_password # users[i].hashed_password)
             => \E r \in Suspended :
                   /\ confirm_reset_password_lookup(r)
                   /\ IsValidResetToken(r.token, users, now)
                   /\ r.token.claims.sub = Some(users[i].email)
                   /\ r.token.claims.password = Some(users'[i].hashed_password)]_vars

\* A confirmed user asked for a reset to another password: the mail task
\* carries the new hash and the stored hash is still the old one.
C21_Witness ==
    /\ response.op = "reset_password_request"
    /\ Len(response.tasks) = 1
    /\ \E u \in Range(users) :
          /\ u.email = response.req.email
          /\ ~verify_password(response.req.password, u.hashed_password)
          /\ verify_password(response.req.password,
                             The(The(response.tasks[1].reset_token).claims.password))

\* C22: mail dispatch is fire-and-forget: a mail task, whether its delivery
\* succeeds or fails, leaves the response already given to the requester and
\* the stored users as they were; a failed delivery raises nothing.
C22_MailFireAndForget ==
    [][\A i \in DOMAIN outbox, outcome \in MailOutcomes :
          (send_confirm_email(i, outcome) \/ send_reset_password_email(i, outcome))
          => /\ response' = response
             /\ users' = users
             /\ task_exc' = "none"]_vars

\* C23: a user's state only moves forward: a row appears only in the insert
\* step of a register and appears unconfirmed, the flag turns true only in
\* the write step of a confirm-email for that user's email, and no step
\* unconfirms or removes a stored user.
C23_AuthStateForwardOnly ==
    [][/\ Len(users') >= Len(users)
       /\ \A i \in DOMAIN users :
             /\ users'[i].id = users[i].id
             /\ users'[i].email = users[i].email
             /\ users[i].confirmed => users'[i].confirmed
             /\ (~users[i].confirmed /\ users'[i].confirmed)
                => \E r \in Suspended :
                      confirmed_email_commit(r) /\ r.email = users[i].email
       /\ \A i \in DOMAIN users' \ DOMAIN users :
             /\ ~users'[i].confirmed
             /\ \E r \in Suspended : register_create_user(r)]_vars

\* Two users are registered; one has gone through confirm-email and stays
\* confirmed while the other is still unconfirmed.
C23_Witness ==
    /\ response.op = "confirmed_email"
    /\ response.status = 200
    /\ \E u, v \in Range(users) : u.confirmed /\ ~v.confirmed

-----------------------------------------------------------------------------
(* The auth workflow together with the avatar route and the contact writes *)
(* of the users the held tokens resolve to: every kind of operation a      *)
(* registered user can run.                                                *)

RoleContactBodies ==
    {b \in ContactBodies : /\ b.phone = "111-1111"
                           /\ b.info = None
                           /\ b.birthday = Date(1990, 12, 30)}

(* Two registrations: an admin whose username is the other user's email. *)
RoleBodies ==
    { [username |-> "bob@x.com", email |-> "alice@x.com", password |-> "pass1", role |-> "admin"],
      [username |-> "alice", email |-> "bob@x.com", password |-> "pass1", role |-> "user"],
      [username |-> "alice", email |-> "bob@x.com", password |-> "pass1", role |-> Absent] }

(* The handler of a contact route starts for the principal resolved for    *)
(* the request r.                                                          *)
contact_route_resolved(r) ==
    /\ BagIn(r, inflight)
    /\ r.pc = "current_user"
    /\ CASE r.route = "create_contact" ->
               create_contact_handler(Resume(r), r.req.body, r.user)
         [] r.route = "update_contact" ->
               update_contact_handler(Resume(r), r.req.contact_id, r.req.body, r.user)
         [] r.route = "remove_contact" ->
               remove_contact_handler(Resume(r), r.req.contact_id, r.user)
         [] OTHER -> FALSE

NextRoles ==
    \/ \E user_data \in RoleBodies : register_user(user_data) /\ RoleInflightBounded
    \/ \E r \in Suspended : register_check_username(r)
    \/ \E r \in Suspended : register_create_user(r)
    \/ \E r \in Suspended : register_refresh_user(r)
    \/ \E form_data \in LoginForms : login_user(form_data)
    \/ \E token \in PresentableTokens : confirmed_email(token) /\ RoleInflightBounded
    \/ \E r \in Suspended : confirmed_email_lookup(r)
    \/ \E r \in Suspended : confirmed_email_commit(r)
    \/ \E body \in ResetPasswordBodies : reset_password_request(body)
    \/ \E token \in PresentableTokens : confirm_reset_password(token) /\ RoleInflightBounded
    \/ \E r \in Suspended : confirm_reset_password_lookup(r)
    \/ \E i \in 1..MaxPending, outcome \in MailOutcomes \ {"SMTPException"} : send_confirm_email(i, outcome)
    \/ \E i \in 1..MaxPending, outcome \in MailOutcomes \ {"SMTPException"} : send_reset_password_email(i, outcome)
    \/ \E token \in tokens, file \in AvatarFiles :
          get_current_user_decode("update_avatar_user", [token |-> token, file |-> file]) /\ RoleInflightBounded
    \/ \E r \in Suspended : get_current_user_lookup(r)
    \/ \E r \in Suspended : update_avatar_user(r)
    \/ \E token \in tokens, body \in RoleContactBodies :
          /\ get_current_user_decode("create_contact", [token |-> token, body |-> body])
          /\ RoleInflightBounded
    \/ \E r \in Suspended : contact_route_resolved(r)
    \/ \E r \in Suspended : create_contact_commit(r)
    \/ \E r \in Suspended : create_contact_refresh(r)
    \/ \E token \in tokens, body \in RoleContactBodies :
          /\ get_current_user_decode("update_contact",
                                     [token |-> token, contact_id |-> 1, body |-> body])
          /\ RoleInflightBounded
    \/ \E r \in Suspended : update_contact_commit(r)
    \/ \E r \in Suspended : update_contact_refresh(r)
    \/ \E token \in tokens :
          /\ get_current_user_decode("remove_contact", [token |-> token, contact_id |-> 1])
          /\ RoleInflightBounded
    \/ \E r \in Suspended : remove_contact_commit(r)

SpecRoles == Init /\ [][NextRoles]_vars

\* C24: a user's role is the one its registration request carried, user
\* when the request carried none, and no later step (confirm-email, login,
\* password reset, avatar update, contact write) changes the role of a
\* stored user.
C24_RoleFixedAtRegistration ==
    [][/\ \A i \in DOMAIN users :
             i \in DOMAIN users' /\ users'[i].role = users[i].role
       /\ \A i \in DOMAIN users' \ DOMAIN users :
             \E r \in Suspended :
                register_create_user(r) /\ users'[i].role = IF r.user_data.role = Absent THEN "user"
                                                           ELSE r.user_data.role
       /\ \A user_data \in RoleBodies :
             (user_data.role = Absent /\ register_user(user_data))
             => response'.status # REQUEST_VALIDATION_ERROR.status]_vars

\* C25: a successful update of contact c by its owner writes the fields the
\* body supplies (an unset info keeps its value), answers with the stored
\* record, and leaves c's id, c's owner and every other contact as they were:
\* the commit of the update leaves c stored with every supplied field as the
\* body has it, and the refresh answers with that row.
C25_UpdateWritesSuppliedFields ==
    [][\A r \in Suspended :
          /\ (update_contact_commit(r) /\ response' = response)
             => \E c \in contacts, n \in contacts' :
                   /\ c.id = r.contact_id /\ c.user_id = r.user.id
                   /\ n.id = c.id /\ n.user_id = c.user_id
                   /\ n.name = r.body.name /\ n.surname = r.body.surname
                   /\ n.email = r.body.email /\ n.phone = r.body.phone
                   /\ n.birthday = r.body.birthday
                   /\ n.info = (IF "info" \in r.body.model_fields_set
                                THEN r.body.info ELSE c.info)
                   /\ contacts' \ {n} = contacts \ {c}
          /\ update_contact_refresh(r)
             => /\ response'.status = 200
                /\ \E n \in contacts : n.id = r.contact_id /\ response'.body = <<n>>
                /\ contacts' = contacts]_vars

\* C26: a successful delete of contact c by its owner removes exactly c and
\* answers with c's data; afterwards the owner's get-by-id of c.id finds
\* nothing, and every other contact is as it was.
C26_DeleteRemovesExactlyOne ==
    [][\A r \in Suspended :
          remove_contact_commit(r)
          => \E c \in contacts :
                /\ c.id = r.contact_id /\ c.user_id = r.user.id
                /\ response' = Resp("remove_contact",
                                    [contact_id |-> r.contact_id, user |-> r.user.id],
                                    200, "", <<c>>, <<>>)
                /\ contacts' = contacts \ {c}
                /\ get_contact_by_id(contacts', c.id, r.user) = None]_vars

(* sub occurs in s as a run of consecutive characters. *)
IsSubstring(sub, s) ==
    \E i \in 0..(Len(s) - Len(sub)) : SubSeq(s, i + 1, i + Len(sub)) = sub

(* The contacts of the owner whose name, surname and email contain the filters. *)
SubstringMatches(cs, req) ==
    {c \in cs : /\ c.user_id = req.user
                /\ IsSubstring(req.name, c.name)
                /\ IsSubstring(req.surname, c.surname)
                /\ IsSubstring(req.email, c.email)}

\* C27: a search answers only with contacts of the owner whose name, surname
\* and email each contain the matching filter as a substring (empty filters
\* match every contact of the owner), without the first skip matches and
\* with at most limit of them.
C27_SearchSubstringFilters ==
    response.op = "get_contacts"
    => LET req == response.req
           matches == SubstringMatches(contacts, req)
           left == IF Cardinality(matches) > req.skip
                   THEN Cardinality(matches) - req.skip ELSE 0
       IN /\ \A i \in DOMAIN response.body : response.body[i] \in matches
          /\ \A i, j \in DOMAIN response.body : i # j => response.body[i] # response.body[j]
          /\ Len(response.body) = Min(req.limit, left)

(* The days from today to the next occurrence of a birthday in the window. *)
DaysUntil(birthday, today, n) ==
    CHOOSE k \in 0..n :
        /\ LET d == AddDays(today, k) IN d.month = birthday.month /\ d.day = birthday.day
        /\ \A h \in 0..(k - 1) :
              LET d == AddDays(today, h) IN ~(d.month = birthday.month /\ d.day = birthday.day)

\* C28: upcoming-birthdays lists its contacts in ascending order of the days
\* from today to the birthday's next occurrence: asked on December 28 with a
\* window into January, a contact born December 30 comes before a contact
\* born January 3.
C28_OrderedByPositionInWindow ==
    response.op = "get_upcoming_birthdays"
    => \A i, j \in DOMAIN response.body :
          LET today == response.req.today
              n == response.req.days
              b1 == response.body[i].birthday
              b2 == response.body[j].birthday
          IN (i < j /\ InCircularWindow(b1, today, n) /\ InCircularWindow(b2, today, n))
             => DaysUntil(b1, today, n) <= DaysUntil(b2, today, n)

\* C29: whatever create-contact, update-contact and delete-contact calls have
\* run, no two distinct contacts of one owner share an email and no two
\* share a phone; an update cannot give a contact the email or phone of
\* another contact of its owner.
C29_OwnerEmailPhoneUnique ==
    \A c1, c2 \in contacts :
        (c1 # c2 /\ c1.user_id = c2.user_id)
        => (c1.email # c2.email /\ c1.phone # c2.phone)

\* An update asked to give a contact the email or phone of another contact
\* of the same owner, and was refused.
C29_Witness ==
    /\ response.op = "update_contact"
    /\ response.status # 200
    /\ \E c, o \in OwnedBy(contacts, response.req.user) :
          /\ c.id = response.req.contact_id
          /\ o.id # c.id
          /\ EmailOrPhone(o, response.req.body)

(* The token is one a confirmation mail carries: signed, no password claim, *)
(* the lifetime of an email token.                                          *)
IsConfirmationToken(t) ==
    /\ t.key = JWT_SECRET
    /\ t.claims.password = None
    /\ t.claims.exp - t.claims.iat = EMAIL_TOKEN_SECONDS

\* C30: tokens are single-purpose: a user's confirmation flag turns true only
\* in a confirm-email step given a confirmation token minted for that user's
\* email, never a session token; and a route that resolves its principal
\* accepts only a session token, never a confirmation or reset token, even
\* when one user's username is another user's email.
C30_TokensSinglePurpose ==
    [][/\ \A i \in DOMAIN users :
             (~users[i].confirmed /\ users'[i].confirmed)
             => \E r \in Suspended :
                   /\ confirmed_email_commit(r)
                   /\ IsConfirmationToken(r.token)
                   /\ r.token.claims.sub = Some(users[i].email)
       /\ \A r \in Suspended :
             (get_current_user_lookup(r) /\ ~IsSessionToken(r.req.token))
             => response' = Raise(r.route, r.req, CREDENTIALS_EXCEPTION)]_vars

====
